---- MODULE Spec2Model ----
(***************************************************************************)
(* Document reading engine of ZYLO: the sentence segmenter of              *)
(* DocumentReader.onPageLoadSuccess and the read-aloud scheduler driven by *)
(* the "Reading Logic" effect of DocumentReader together with the          *)
(* ReadingAssistant parent component of App.js.                            *)
(*                                                                         *)
(* Text is a sequence of one-character strings.  "a" stands for any        *)
(* alphanumeric character, "." for a sentence terminator (. ! ?), " " for  *)
(* white space.                                                            *)
(***************************************************************************)
EXTENDS Integers, Sequences, FiniteSets, TLC

(***************************************************************************)
(* Bounds of the model.                                                    *)
(***************************************************************************)
MaxFrags == 3

MaxSentences == 3

NumParentSentences == 2

MaxAttempts == 2

None == [none |-> TRUE]

(***************************************************************************)
(* String helpers (String.prototype.trim, RegExp tests).                   *)
(***************************************************************************)
IsTerminator(c) == c \in {".", "!", "?"}

IsSpace(c) == c = " "

IsAlnum(c) == c = "a"

RECURSIVE TrimLeft(_)
TrimLeft(s) ==
    IF s # <<>> /\ IsSpace(Head(s)) THEN TrimLeft(Tail(s)) ELSE s

RECURSIVE TrimRight(_)
TrimRight(s) ==
    IF s # <<>> /\ IsSpace(s[Len(s)]) THEN TrimRight(SubSeq(s, 1, Len(s) - 1)) ELSE s

Trim(s) == TrimRight(TrimLeft(s))

\* /[.!?]/.test(s)
HasTerminator(s) == \E i \in 1..Len(s) : IsTerminator(s[i])

\* /[.!?]$/.test(s)
EndsWithTerminator(s) == s # <<>> /\ IsTerminator(s[Len(s)])

\* /^\(?[0-9a-zA-Z]{1,2}(\.|\))$/.test(s)
SerialPattern(s) ==
    LET t == IF s # <<>> /\ Head(s) = "(" THEN Tail(s) ELSE s
    IN  /\ Len(t) \in {2, 3}
        /\ \A i \in 1..(Len(t) - 1) : IsAlnum(t[i])
        /\ t[Len(t)] \in {".", ")"}

\* End (exclusive) of the maximal run of characters satisfying "terminator = b"
\* that starts at position p.
RECURSIVE RunEnd(_, _, _)
RunEnd(s, p, b) ==
    IF p <= Len(s) /\ IsTerminator(s[p]) = b THEN RunEnd(s, p + 1, b) ELSE p

\* s.match(/[^.!?]+[.!?]+|[^.!?]+$/g): the successive matches from position p.
\* A position holding a terminator matches neither alternative and is skipped.
RECURSIVE MatchFrom(_, _)
MatchFrom(s, p) ==
    IF p > Len(s) THEN <<>>
    ELSE IF IsTerminator(s[p]) THEN MatchFrom(s, p + 1)
    ELSE LET q == RunEnd(s, p, FALSE)
             r == RunEnd(s, q, TRUE)
         IN  <<SubSeq(s, p, r - 1)>> \o MatchFrom(s, r)

\* fullText.match(...) || [fullText]
SplitSentences(s) ==
    LET m == MatchFrom(s, 1) IN IF m = <<>> THEN <<s>> ELSE m

(***************************************************************************)
(* Layout token classifier and sentence segmenter (onPageLoadSuccess).     *)
(* An item is [str, height, y]: the text of a fragment, |transform[3]| and *)
(* transform[5].  Fragment indices are 0-based as in the source.           *)
(***************************************************************************)
\* The element at 0-based position k of hs sorted ascending.
SortedNth(hs, k) ==
    CHOOSE v \in {hs[i] : i \in 1..Len(hs)} :
        /\ Cardinality({i \in 1..Len(hs) : hs[i] < v}) <= k
        /\ k < Cardinality({i \in 1..Len(hs) : hs[i] <= v})

\* heights[Math.floor(heights.length / 2)] || 12
MedianHeight(items) ==
    LET hs == [i \in 1..Len(items) |-> items[i].height]
        m  == SortedNth(hs, Len(items) \div 2)
    IN  IF m = 0 THEN 12 ELSE m

\* height > medianHeight * 1.3
IsHeading(item, medianHeight) == 10 * item.height > 13 * medianHeight

IsSerial(item) == SerialPattern(Trim(item.str))

\* y < pageHeight * 0.1 || y > pageHeight * 0.9
IsHeaderOrFooter(item, pageHeight) ==
    10 * item.y < pageHeight \/ 10 * item.y > 9 * pageHeight

\* A classification that does not look at the serial-marker pattern.
IsMetadataItemNoSerial(item, medianHeight, pageHeight) ==
    \/ IsHeading(item, medianHeight)
    \/ IsHeaderOrFooter(item, pageHeight)

IsMetadataItem(item, medianHeight, pageHeight) ==
    \/ IsHeading(item, medianHeight)
    \/ IsSerial(item)
    \/ IsHeaderOrFooter(item, pageHeight)

\* raw.forEach(s => { if (s.trim()) allSentences.push({text: s.trim(), ...}) })
RECURSIVE PushPieces(_, _)
PushPieces(raw, indices) ==
    IF raw = <<>> THEN <<>>
    ELSE (IF Trim(Head(raw)) # <<>>
          THEN <<[text |-> Trim(Head(raw)), isMetadata |-> FALSE, itemIndices |-> indices]>>
          ELSE <<>>) \o PushPieces(Tail(raw), indices)

\* The values the variables of the loop held when the latest run of the
\* segmenter ended (observation only).
VARIABLE segAcc

\* The accumulator of the loop: allSentences, fullText, currentItemIndices.
EmptyAcc == [allSentences |-> <<>>, fullText |-> <<>>, currentItemIndices |-> <<>>]

\* if (fullText.trim()) { split, push, reset }
FlushAcc(acc) ==
    IF Trim(acc.fullText) # <<>>
    THEN [allSentences |-> acc.allSentences
                            \o PushPieces(SplitSentences(acc.fullText), acc.currentItemIndices),
          fullText |-> <<>>,
          currentItemIndices |-> <<>>]
    ELSE acc

MetadataBranch(acc, item, idx) ==
    LET f == FlushAcc(acc)
    IN  [f EXCEPT !.allSentences =
            Append(@, [text |-> Trim(item.str), isMetadata |-> TRUE, itemIndices |-> <<idx>>])]

\* A body branch that keeps currentItemIndices when it pushes a sentence.
BodyBranchKeepsIndices(acc, item, idx) ==
    LET fullText == acc.fullText \o item.str \o <<" ">>
        indices  == Append(acc.currentItemIndices, idx)
        raw      == SplitSentences(fullText)
    IN  IF /\ HasTerminator(item.str)
           /\ \/ Len(raw) > 1
              \/ Len(raw) = 1 /\ EndsWithTerminator(Trim(fullText))
        THEN [allSentences |-> Append(acc.allSentences,
                  [text |-> Trim(fullText), isMetadata |-> FALSE, itemIndices |-> indices]),
              fullText |-> <<>>,
              currentItemIndices |-> indices]
        ELSE [acc EXCEPT !.fullText = fullText, !.currentItemIndices = indices]

BodyBranch(acc, item, idx) ==
    LET fullText == acc.fullText \o item.str \o <<" ">>
        indices  == Append(acc.currentItemIndices, idx)
        raw      == SplitSentences(fullText)
    IN  IF /\ HasTerminator(item.str)
           /\ \/ Len(raw) > 1
              \/ Len(raw) = 1 /\ EndsWithTerminator(Trim(fullText))
        THEN [allSentences |-> Append(acc.allSentences,
                  [text |-> Trim(fullText), isMetadata |-> FALSE, itemIndices |-> indices]),
              fullText |-> <<>>,
              currentItemIndices |-> <<>>]
        ELSE [acc EXCEPT !.fullText = fullText, !.currentItemIndices = indices]

\* An iteration that takes every fragment for body text.
SegmentItemAllBody(acc, item, idx, medianHeight, pageHeight) ==
    IF item.str = <<>> THEN acc ELSE BodyBranch(acc, item, idx)

\* An iteration that flushes the accumulator at a fragment without text.
SegmentItemEmptyFlushes(acc, item, idx, medianHeight, pageHeight) ==
    IF item.str = <<>> THEN FlushAcc(acc)
    ELSE IF IsMetadataItem(item, medianHeight, pageHeight)
         THEN MetadataBranch(acc, item, idx)
         ELSE BodyBranch(acc, item, idx)

\* One iteration of items.forEach((item, idx) => ...).
SegmentItem(acc, item, idx, medianHeight, pageHeight) ==
    IF item.str = <<>> THEN acc
    ELSE IF IsMetadataItem(item, medianHeight, pageHeight)
         THEN MetadataBranch(acc, item, idx)
         ELSE BodyBranch(acc, item, idx)

RECURSIVE SegmentLoop(_, _, _, _, _)
SegmentLoop(acc, items, k, medianHeight, pageHeight) ==
    IF k > Len(items) THEN acc
    ELSE SegmentLoop(SegmentItem(acc, items[k], k - 1, medianHeight, pageHeight),
                     items, k + 1, medianHeight, pageHeight)

\* Loop variables that keep the values the previous run left in them.
LoopVariablesCarried(previous) == previous

\* let allSentences = []; let fullText = ""; let currentItemIndices = [];
\* every run declares its loop variables anew, whatever the previous run left.
LoopVariables(previous) == EmptyAcc

\* The variables of the loop after the loop and the flush at the end of the
\* stream (a page without items returns before they are declared).
SegmentRun(items, pageHeight) ==
    IF Len(items) = 0 THEN segAcc
    ELSE FlushAcc(SegmentLoop(LoopVariables(segAcc), items, 1,
                              MedianHeight(items), pageHeight))

\* The sentence list onPageLoadSuccess computes for the items of one page.
SegmentPage(items, pageHeight) ==
    IF Len(items) = 0 THEN <<>>
    ELSE SegmentRun(items, pageHeight).allSentences

(***************************************************************************)
(* Pages the segmenter is run on.                                          *)
(***************************************************************************)
ItemStrs ==
    { <<>>, <<" ">>, <<"a">>, <<"a", ".">>, <<".", "a">>,
      <<"a", " ", "a", ".">>, <<"a", "a", "a", ".", "a">> }

\* Body height in mid page, heading height in mid page, body height in the footer zone.
ItemGeometries == { <<10, 50>>, <<20, 50>>, <<10, 5>> }

PageHeights == {100}

Items == { [str |-> s, height |-> g[1], y |-> g[2]] : s \in ItemStrs, g \in ItemGeometries }

RECURSIVE SeqsUpTo(_, _)
SeqsUpTo(S, n) ==
    IF n = 0 THEN {<<>>}
    ELSE LET shorter == SeqsUpTo(S, n - 1)
         IN  shorter \cup { Append(q, x) : q \in {r \in shorter : Len(r) = n - 1}, x \in S }

\* Fragments of rotated text (transform[3] = 0) and of small print, mid page.
FlatItems == { [str |-> <<"a">>, height |-> h, y |-> 50] : h \in {0, 5} }

FlatPages == SeqsUpTo(FlatItems, MaxFrags)

Pages == SeqsUpTo(Items, MaxFrags) \cup FlatPages

(***************************************************************************)
(* State.                                                                  *)
(*                                                                         *)
(* ReadingAssistant (App.js): isReading, isProcessing,                     *)
(* currentSentenceIndex, advancePending (the 2500 ms timer armed by a      *)
(* correct practice attempt), status (the message shown, where "other"     *)
(* stands for every message that a handler other than                      *)
(* practiceCurrentSentence sets), practiceResult (the response data of the *)
(* latest successful attempt, reduced to is_correct; wordFeedback and      *)
(* feedback are set and cleared by the same statements) and sessionStats   *)
(* (without totalSentences, which no handler of the reading view changes). *)
(*                                                                         *)
(* DocumentReader: localSentences, activeSentenceIndex, hasCleanup (the    *)
(* last run of the Reading Logic effect returned its cancel() cleanup),    *)
(* pageLoading (pageNumber changed and onLoadSuccess has not fired yet),   *)
(* extracting (onPageLoadSuccess awaits getTextContent), callbackReading   *)
(* (parentIsReading as captured by the memoised onPageLoadSuccess and, via *)
(* mapSentencesToDom, by handleSentenceClick), bindPending (the 1000 ms    *)
(* mapSentencesToDom timer is armed; it holds the captured parentIsReading *)
(* and whether the sentences to bind have any element),                    *)
(* handlers (onclick handlers are attached to the spans of the sentences   *)
(* of the page shown, with the parentIsReading they captured) and          *)
(* domItemsMap (whose spans the table set by mapSentencesToDom holds:      *)
(* none, those of the page shown, or those of a page shown earlier).       *)
(*                                                                         *)
(* window.speechSynthesis: queue (utterances held by the engine, the head  *)
(* is being spoken), staleEnd (an utterance removed by cancel() whose end  *)
(* event is still to be dispatched).  An utterance carries what its onend  *)
(* closure captured: activeSentenceIndex (idx) and localSentences.length   *)
(* (n), and whether the sentence whose text it holds is metadata.          *)
(*                                                                         *)
(* Observation only: lastEvent is the latest scheduler event since the     *)
(* last user action ("none" right after a user action): "stop" a stop      *)
(* request made while an utterance was being spoken, "start" a press of    *)
(* the Start Reading button while playback was off, "end" the completion   *)
(* of a sentence that is not the last, "last" the completion of the last   *)
(* sentence, "error" a synthesis error, "nav" a page load that began while *)
(* an utterance was being spoken.                                          *)
(*                                                                         *)
(* Segmenter runs: segItems, segPageHeight, segSentences (the result of the *)
(* latest run on segItems once segDone), segFirst (the result of the first *)
(* run on segItems), segReloads (the number of runs since the first),      *)
(* segVisited (another page has been segmented since the first run).       *)
(*                                                                         *)
(* Audio capture: captureHost (the component whose capture pipeline is     *)
(* mounted: "reader" for DocumentReader, "practice" for SentencePractice), *)
(* isRecording (the component's recording state), mediaRecorderRef (the    *)
(* session whose recorder mediaRecorderRef.current holds, 0 for null),     *)
(* acquiring (getUserMedia requests not yet settled), starts (start        *)
(* requests made so far), sessions (the capture sessions in the order      *)
(* their streams were acquired: the state of the stream's tracks, of the   *)
(* recorder and its stop handler, the outcome of decoding, the buffers     *)
(* forwarded for scoring) and alerts (alert() dialogs shown).              *)
(*                                                                         *)
(* Normalization: capturedAudio (the audio of a recording as the device    *)
(* captured it: its sample rate and, per channel, its frames in            *)
(* thousandths of full scale) and wavBuffer (the bytes convertToWav made   *)
(* of it, empty until it has run).                                         *)
(*                                                                         *)
(* Capture buffer: audioChunks (audioChunksRef.current of DocumentReader,  *)
(* the chunks state of SentencePractice) and recorders (per MediaRecorder  *)
(* constructed, how far its stop has got, the chunks it delivered and the  *)
(* chunks its stop handler put in the Blob).                               *)
(*                                                                         *)
(* Alignment: expectedText (the text of the sentence practised),           *)
(* transcript (the spoken_text of the scoring result, which may be absent),*)
(* wordMatchMap and wordFeedback (what getWordMatchMap of SentencePractice *)
(* and getWordFeedback of DocumentReader return for them, once aligned).   *)
(*                                                                         *)
(* Verdict: score (the score of a scoring result, in steps of              *)
(* 1 / ScoreSteps) and scoreSurfaces (what the feedback surfaces show for  *)
(* it once it is rendered: the encouragement message and the colour of the *)
(* score bar of SentencePractice, the colour of the accuracy score of      *)
(* DocumentReader) and correctionTimers (the 1000 ms timers armed by the   *)
(* auto-correction effect of DocumentReader and not yet fired, each with   *)
(* the missed words its utterance enumerates).                             *)
(*                                                                         *)
(* Binding passes: pageNumber (the page DocumentReader asks for),          *)
(* textLayer (the page whose text layer is in the document, 0 when there   *)
(* is none), bindTimers (the mapSentencesToDom timers armed and not yet    *)
(* fired, each named by the page whose sentences it closed over), marked   *)
(* (the pages from whose sentences markers and click handlers have been    *)
(* put on the elements of the text layer) and boundTable (the page from    *)
(* whose sentences domItemsMap was last built, 0 before the first pass).   *)
(*                                                                         *)
(* Focus reading: focusLength (sentences.length of FocusReadingView),      *)
(* focusIndex and focusPlaying (its currentSentenceIndex and isPlaying),   *)
(* focusTimers (its advance timers pending, TRUE for the one the latest    *)
(* run of its effect armed).                                               *)
(*                                                                         *)
(* Every handler runs to completion together with the re-render and the    *)
(* effects React runs for the state it changed (batched updates).          *)
(***************************************************************************)
VARIABLES isReading, isProcessing, currentSentenceIndex, advancePending,
          status, practiceResult, sessionStats,
          localSentences, activeSentenceIndex, hasCleanup,
          pageLoading, extracting, callbackReading, bindPending, handlers,
          domItemsMap,
          queue, staleEnd, lastEvent,
          segItems, segPageHeight, segSentences, segDone,
          segFirst, segReloads, segVisited,
          captureHost, isRecording, mediaRecorderRef, acquiring, starts,
          sessions, alerts, capturedAudio, wavBuffer, audioChunks, recorders,
          expectedText, transcript, wordMatchMap, wordFeedback, aligned,
          score, scoreSurfaces, correctionTimers,
          pageNumber, textLayer, bindTimers, marked, boundTable,
          focusLength, focusIndex, focusPlaying, focusTimers

parentVars == <<isReading, isProcessing, currentSentenceIndex, advancePending,
               status, practiceResult, sessionStats>>

readerVars == <<localSentences, activeSentenceIndex, hasCleanup>>

pageVars == <<pageLoading, extracting, callbackReading, bindPending, handlers,
              domItemsMap>>

engineVars == <<queue, staleEnd>>

segVars == <<segItems, segPageHeight, segSentences, segDone,
             segAcc, segFirst, segReloads, segVisited>>

captureVars == <<captureHost, isRecording, mediaRecorderRef, acquiring, starts,
                 sessions, alerts, capturedAudio, wavBuffer, audioChunks, recorders>>

alignVars == <<expectedText, transcript, wordMatchMap, wordFeedback, aligned>>

verdictVars == <<score, scoreSurfaces, correctionTimers>>

bindVars == <<pageNumber, textLayer, bindTimers, marked, boundTable>>

focusVars == <<focusLength, focusIndex, focusPlaying, focusTimers>>

vars == <<parentVars, readerVars, pageVars, engineVars, lastEvent, segVars, captureVars,
          alignVars, verdictVars, bindVars, focusVars>>

SentenceLists ==
    SeqsUpTo({[isMetadata |-> TRUE], [isMetadata |-> FALSE]}, MaxSentences)

(***************************************************************************)
(* window.speechSynthesis.  An engine value is [queue, staleEnd].          *)
(***************************************************************************)
\* A cancel() that leaves the queue as it is.
EngineCancelKeepsQueue(eng, keep) == eng

\* speechSynthesis.cancel(): every utterance is removed from the queue.  The
\* end event of the utterance that was being spoken is either still
\* dispatched afterwards (keep) or not.
EngineCancel(eng, keep) ==
    IF eng.queue = <<>> THEN eng
    ELSE [queue |-> <<>>, staleEnd |-> IF keep THEN Head(eng.queue) ELSE eng.staleEnd]

\* speechSynthesis.speak(utterance): the utterance is appended to the queue.
EngineSpeak(eng, utterance) == [eng EXCEPT !.queue = Append(@, utterance)]

\* new SpeechSynthesisUtterance(sentenceObj.text) with its onend closure.
Utterance(idx, sentences) ==
    [idx |-> idx, n |-> Len(sentences), isMetadata |-> sentences[idx + 1].isMetadata]

(***************************************************************************)
(* The Reading Logic effect.                                               *)
(***************************************************************************)
\* while (nextIdx < localSentences.length && localSentences[nextIdx].isMetadata) nextIdx++
RECURSIVE SkipMetadata(_, _)
SkipMetadata(sentences, nextIdx) ==
    IF nextIdx < Len(sentences) /\ sentences[nextIdx + 1].isMetadata
    THEN SkipMetadata(sentences, nextIdx + 1)
    ELSE nextIdx

\* A scheduler that takes every sentence for body text.
IsMetadataSentenceNever(sentences, idx) == FALSE

\* sentenceObj.isMetadata for sentenceObj = localSentences[activeSentenceIndex]
IsMetadataSentence(sentences, idx) == sentences[idx + 1].isMetadata

\* The cleanup of the previous run, then the effect body; a body that calls
\* setActiveSentenceIndex is followed by the run for the new index.  The
\* result is [idx, eng, cleanup].
RECURSIVE ReadingEffect(_, _, _, _, _, _)
ReadingEffect(reading, sentences, idx, eng, cleanup, keep) ==
    LET e0 == IF cleanup THEN EngineCancel(eng, keep) ELSE eng
    IN  IF reading /\ Len(sentences) > 0
        THEN IF idx >= Len(sentences)
             THEN [idx |-> idx, eng |-> e0, cleanup |-> FALSE]
             ELSE IF IsMetadataSentence(sentences, idx)
                  THEN LET nextIdx == SkipMetadata(sentences, idx + 1)
                       IN  IF nextIdx < Len(sentences)
                           THEN ReadingEffect(reading, sentences, nextIdx, e0, FALSE, keep)
                           ELSE [idx |-> idx, eng |-> EngineCancel(e0, keep), cleanup |-> FALSE]
                  ELSE [idx |-> idx,
                        eng |-> EngineSpeak(EngineCancel(e0, keep), Utterance(idx, sentences)),
                        cleanup |-> TRUE]
        ELSE [idx |-> idx, eng |-> EngineCancel(e0, keep), cleanup |-> FALSE]

Engine == [queue |-> queue, staleEnd |-> staleEnd]

\* Re-render after a handler left the engine as eng and the reader state as
\* (reading, sentences, idx): the effect runs when one of its dependencies
\* changed (changed), otherwise nothing more happens.
Render(reading, sentences, idx, eng, changed, keep) ==
    IF changed
    THEN LET r == ReadingEffect(reading, sentences, idx, eng, hasCleanup, keep)
         IN  /\ activeSentenceIndex' = r.idx
             /\ queue' = r.eng.queue
             /\ staleEnd' = r.eng.staleEnd
             /\ hasCleanup' = r.cleanup
    ELSE /\ activeSentenceIndex' = idx
         /\ queue' = eng.queue
         /\ staleEnd' = eng.staleEnd
         /\ hasCleanup' = hasCleanup

(***************************************************************************)
(* Initial state: DocumentReader has just been mounted on an uploaded      *)
(* document and its first page is being loaded.                            *)
(***************************************************************************)
SegIdle ==
    /\ segItems = <<>>
    /\ segPageHeight = 0
    /\ segSentences = <<>>
    /\ segDone = FALSE
    /\ segAcc = EmptyAcc
    /\ segFirst = <<>>
    /\ segReloads = 0
    /\ segVisited = FALSE

ReaderInit ==
    /\ isReading = FALSE
    /\ isProcessing = FALSE
    /\ currentSentenceIndex = 0
    /\ advancePending = FALSE
    /\ status = "other"
    /\ practiceResult = None
    /\ sessionStats = [completedSentences |-> 0, correctAttempts |-> 0, totalAttempts |-> 0]
    /\ localSentences = <<>>
    /\ activeSentenceIndex = 0
    /\ hasCleanup = FALSE
    /\ pageLoading = TRUE
    /\ extracting = FALSE
    /\ callbackReading = FALSE
    /\ bindPending = None
    /\ handlers = None
    /\ domItemsMap = "empty"
    /\ queue = <<>>
    /\ staleEnd = None
    /\ lastEvent = "none"

\* No capture has been requested.
CaptureIdle ==
    /\ captureHost = "reader"
    /\ isRecording = FALSE
    /\ mediaRecorderRef = 0
    /\ acquiring = 0
    /\ starts = 0
    /\ sessions = <<>>
    /\ alerts = 0
    /\ capturedAudio = [sampleRate |-> 16000, channels |-> << <<>> >>]
    /\ wavBuffer = <<>>
    /\ audioChunks = <<>>
    /\ recorders = <<>>

\* No practice result has been aligned.
AlignIdle ==
    /\ expectedText = <<>>
    /\ transcript = [present |-> FALSE, text |-> <<>>]
    /\ wordMatchMap = <<>>
    /\ wordFeedback = <<>>
    /\ aligned = FALSE

\* No scoring result has been rendered.
VerdictIdle ==
    /\ score = 0
    /\ scoreSurfaces = None
    /\ correctionTimers = <<>>

\* No page of the binding model is shown and no binding pass is pending.
BindIdle ==
    /\ pageNumber = 1
    /\ textLayer = 0
    /\ bindTimers = <<>>
    /\ marked = {}
    /\ boundTable = 0

\* FocusReadingView is not mounted.
FocusIdle ==
    /\ focusLength = 0
    /\ focusIndex = 0
    /\ focusPlaying = FALSE
    /\ focusTimers = <<>>

Init == ReaderInit /\ BindIdle /\ FocusIdle /\ SegIdle /\ CaptureIdle /\ AlignIdle /\ VerdictIdle

(***************************************************************************)
(* ReadingAssistant (App.js).                                              *)
(***************************************************************************)
\* The Start/Stop Reading button.
ReadCurrentSentence ==
    /\ lastEvent' = CASE isReading /\ queue # <<>> -> "stop"
                       [] ~isReading -> "start"
                       [] OTHER -> "none"
    /\ IF isProcessing \/ currentSentenceIndex >= NumParentSentences
       THEN UNCHANGED <<parentVars, readerVars, engineVars>>
       ELSE /\ isReading' = ~isReading
            /\ status' = "other"
            /\ \E keep \in BOOLEAN :
                   Render(~isReading, localSentences, activeSentenceIndex, Engine, TRUE, keep)
            /\ UNCHANGED <<isProcessing, currentSentenceIndex, advancePending,
                           practiceResult, sessionStats, localSentences>>
    /\ UNCHANGED <<pageVars, segVars, captureVars, alignVars, verdictVars, bindVars, focusVars>>

\* practiceCurrentSentence up to its await.  Reading the text of a sentence
\* that allSentences does not hold throws inside the try block: the catch
\* block sets the error status and the finally block resets isProcessing
\* before any request is made.
PracticeCurrentSentence ==
    /\ IF currentSentenceIndex < NumParentSentences
       THEN /\ isProcessing' = TRUE
            /\ status' = "Evaluating pronunciation..."
       ELSE /\ isProcessing' = FALSE
            /\ status' = "Practice encounterd an error"
    /\ UNCHANGED <<isReading, currentSentenceIndex, advancePending, practiceResult, sessionStats>>

\* onPractice(audioBlob): practiceCurrentSentence up to the request being sent.
PracticeSubmit ==
    /\ ~isProcessing
    /\ sessionStats.totalAttempts < MaxAttempts
    /\ PracticeCurrentSentence
    /\ lastEvent' = "none"
    /\ UNCHANGED <<readerVars, pageVars, engineVars, segVars, captureVars, alignVars, verdictVars, bindVars, focusVars>>

\* What the request of an attempt may come to: a response with success and
\* is_correct, one with success and without is_correct, one without success,
\* or an error (the request fails or the service answers with an error status).
Outcomes == {"correct", "incorrect", "no success", "error"}

\* practiceCurrentSentence from its await on, for one outcome of the request.
\* A correct attempt arms the timer that moves on to the next sentence.
EvaluationSettles(outcome) ==
    /\ isProcessing' = FALSE
    /\ IF outcome \in {"correct", "incorrect"}
       THEN /\ practiceResult' = [is_correct |-> outcome = "correct"]
            /\ sessionStats' =
                   [sessionStats EXCEPT !.totalAttempts = @ + 1,
                                        !.correctAttempts = IF outcome = "correct" THEN @ + 1 ELSE @]
       ELSE UNCHANGED <<practiceResult, sessionStats>>
    /\ status' = CASE outcome = "correct" -> "Excellent! Moving to next sentence..."
                   [] outcome = "error" -> "Practice encounterd an error"
                   [] OTHER -> status
    /\ advancePending' = (advancePending \/ outcome = "correct")
    /\ UNCHANGED <<isReading, currentSentenceIndex>>

\* The request of the attempt being evaluated settles.
PracticeResponse ==
    /\ isProcessing
    /\ \E outcome \in Outcomes : EvaluationSettles(outcome)
    /\ UNCHANGED <<readerVars, pageVars, engineVars, lastEvent, segVars, captureVars, alignVars, verdictVars, bindVars, focusVars>>

\* The timer of a correct attempt: setCurrentSentenceIndex(prev => prev + 1),
\* completedSentences + 1, the practice result cleared, then DocumentReader's
\* "Sync with parent index" effect.
PracticeAdvance ==
    /\ advancePending
    /\ currentSentenceIndex < MaxSentences
    /\ advancePending' = FALSE
    /\ currentSentenceIndex' = currentSentenceIndex + 1
    /\ sessionStats' = [sessionStats EXCEPT !.completedSentences = @ + 1]
    /\ practiceResult' = None
    /\ \E keep \in BOOLEAN :
           Render(isReading, localSentences, currentSentenceIndex + 1, Engine,
                  currentSentenceIndex + 1 # activeSentenceIndex, keep)
    /\ UNCHANGED <<isReading, isProcessing, status, localSentences, pageVars, lastEvent, segVars, captureVars, alignVars, verdictVars, bindVars, focusVars>>

\* onJumpTo(index): jumpToSentence of ReadingAssistant.
JumpToSentence(index) ==
    /\ currentSentenceIndex' = index
    /\ practiceResult' = None
    /\ status' = "other"
    /\ UNCHANGED <<isReading, isProcessing, advancePending, sessionStats>>

(***************************************************************************)
(* DocumentReader: navigation within the page.                             *)
(***************************************************************************)
HandleNextSentence ==
    /\ activeSentenceIndex < Len(localSentences) - 1
    /\ JumpToSentence(activeSentenceIndex + 1)
    /\ \E keep \in BOOLEAN :
           Render(isReading, localSentences, activeSentenceIndex + 1, Engine, TRUE, keep)
    /\ lastEvent' = "none"
    /\ UNCHANGED <<localSentences, pageVars, segVars, captureVars, alignVars, verdictVars, bindVars, focusVars>>

HandlePrevSentence ==
    /\ activeSentenceIndex > 0
    /\ JumpToSentence(activeSentenceIndex - 1)
    /\ \E keep \in BOOLEAN :
           Render(isReading, localSentences, activeSentenceIndex - 1, Engine, TRUE, keep)
    /\ lastEvent' = "none"
    /\ UNCHANGED <<localSentences, pageVars, segVars, captureVars, alignVars, verdictVars, bindVars, focusVars>>

\* The Practice button of DocumentReader.js, pressed while no attempt is being
\* evaluated: the text of the sentence at the cursor goes to onPractice.
HandlePracticeClickText ==
    /\ ~isProcessing
    /\ sessionStats.totalAttempts < MaxAttempts
    /\ activeSentenceIndex < Len(localSentences)
    /\ PracticeCurrentSentence
    /\ lastEvent' = "none"
    /\ UNCHANGED <<readerVars, pageVars, engineVars, segVars, captureVars, alignVars, verdictVars, bindVars, focusVars>>

\* The onclick handler mapSentencesToDom attached for sentence index.
HandleSentenceClick ==
    /\ handlers # None
    /\ \E index \in 0..(Len(localSentences) - 1), keep \in BOOLEAN :
        /\ ~localSentences[index + 1].isMetadata
        /\ JumpToSentence(index)
        /\ Render(isReading, localSentences, index,
                  IF handlers.reading THEN EngineCancel(Engine, keep) ELSE Engine,
                  index # activeSentenceIndex, keep)
    /\ lastEvent' = "none"
    /\ UNCHANGED <<localSentences, pageVars, segVars, captureVars, alignVars, verdictVars, bindVars, focusVars>>

\* The speed select: onSpeedChange with another value.
OnSpeedChange ==
    /\ \E keep \in BOOLEAN :
           Render(isReading, localSentences, activeSentenceIndex, Engine, TRUE, keep)
    /\ lastEvent' = "none"
    /\ UNCHANGED <<parentVars, localSentences, pageVars, segVars, captureVars, alignVars, verdictVars, bindVars, focusVars>>

\* The voice select: setSelectedVoice with another voice.
SetSelectedVoice ==
    /\ \E keep \in BOOLEAN :
           Render(isReading, localSentences, activeSentenceIndex, Engine, TRUE, keep)
    /\ lastEvent' = "none"
    /\ UNCHANGED <<parentVars, localSentences, pageVars, segVars, captureVars, alignVars, verdictVars, bindVars, focusVars>>

\* speechSynthesis.onvoiceschanged: loadVoices selects a voice of the new list.
LoadVoices ==
    /\ \E keep \in BOOLEAN :
           Render(isReading, localSentences, activeSentenceIndex, Engine, TRUE, keep)
    /\ UNCHANGED <<parentVars, localSentences, pageVars, lastEvent, segVars, captureVars, alignVars, verdictVars, bindVars, focusVars>>

(***************************************************************************)
(* DocumentReader: pages.                                                  *)
(***************************************************************************)
\* The page buttons: setPageNumber.  The text layer of the page shown so far
\* goes away, and onPageLoadSuccess is memoised anew.
SetPageNumber ==
    /\ pageLoading' = TRUE
    /\ callbackReading' = isReading
    /\ handlers' = None
    /\ domItemsMap' = IF domItemsMap = "empty" THEN "empty" ELSE "of an earlier page"
    /\ lastEvent' = "none"
    /\ UNCHANGED <<parentVars, readerVars, extracting, bindPending, engineVars, segVars, captureVars, alignVars, verdictVars, bindVars, focusVars>>

\* onPageLoadSuccess up to its await.
OnPageLoadSuccess ==
    /\ pageLoading
    /\ ~extracting
    /\ pageLoading' = FALSE
    /\ extracting' = TRUE
    /\ localSentences' = <<>>
    /\ \E keep \in BOOLEAN : Render(isReading, <<>>, 0, Engine, TRUE, keep)
    /\ lastEvent' = IF queue # <<>> THEN "nav" ELSE lastEvent
    /\ UNCHANGED <<parentVars, callbackReading, bindPending, handlers, domItemsMap, segVars, captureVars, alignVars, verdictVars, bindVars, focusVars>>

\* onPageLoadSuccess after its await: a page without items returns at once,
\* any other page sets the segmented sentences and arms mapSentencesToDom.
OnTextContent ==
    /\ extracting
    /\ extracting' = FALSE
    /\ \/ UNCHANGED <<readerVars, engineVars, bindPending>>
       \/ /\ bindPending = None
          /\ \E sentences \in SentenceLists, keep \in BOOLEAN :
                /\ localSentences' = sentences
                /\ Render(isReading, sentences, activeSentenceIndex, Engine, TRUE, keep)
                /\ bindPending' = [reading |-> callbackReading,
                                    elements |-> sentences # <<>>]
    /\ UNCHANGED <<parentVars, pageLoading, callbackReading, handlers, domItemsMap, lastEvent, segVars, captureVars, alignVars, verdictVars, bindVars, focusVars>>

\* The timer armed by onPageLoadSuccess: mapSentencesToDom(allSentences).
MapSentencesToDom ==
    /\ bindPending # None
    /\ bindPending' = None
    /\ \E container \in BOOLEAN :
        /\ container => ~pageLoading
        /\ handlers' = IF container THEN [reading |-> bindPending.reading] ELSE handlers
        /\ domItemsMap' = CASE ~container -> domItemsMap
                            [] container /\ bindPending.elements -> "of the page shown"
                            [] OTHER -> "empty"
    /\ UNCHANGED <<parentVars, readerVars, pageLoading, extracting, callbackReading,
                   engineVars, lastEvent, segVars, captureVars, alignVars, verdictVars, bindVars, focusVars>>

(***************************************************************************)
(* Events of the speech engine.                                            *)
(***************************************************************************)
\* An onend that moves the cursor on by two sentences.
OnEndSkipsOne(utterance, eng) ==
    IF utterance.idx < utterance.n - 1
    THEN \E keep \in BOOLEAN :
             Render(isReading, localSentences, activeSentenceIndex + 2, eng, TRUE, keep)
    ELSE /\ activeSentenceIndex' = activeSentenceIndex
         /\ queue' = eng.queue
         /\ staleEnd' = eng.staleEnd
         /\ hasCleanup' = hasCleanup

\* utterance.onend of the closure (idx, n), run on the engine state eng.
OnEnd(utterance, eng) ==
    IF utterance.idx < utterance.n - 1
    THEN \E keep \in BOOLEAN :
             Render(isReading, localSentences, activeSentenceIndex + 1, eng, TRUE, keep)
    ELSE /\ activeSentenceIndex' = activeSentenceIndex
         /\ queue' = eng.queue
         /\ staleEnd' = eng.staleEnd
         /\ hasCleanup' = hasCleanup

\* The utterance being spoken completes.
UtteranceEnd ==
    /\ queue # <<>>
    /\ OnEnd(Head(queue), [queue |-> Tail(queue), staleEnd |-> staleEnd])
    /\ lastEvent' = IF Head(queue).idx >= Len(localSentences) - 1 THEN "last" ELSE "end"
    /\ UNCHANGED <<parentVars, localSentences, pageVars, segVars, captureVars, alignVars, verdictVars, bindVars, focusVars>>

\* The end event of an utterance that cancel() removed is dispatched.
StaleUtteranceEnd ==
    /\ staleEnd # None
    /\ OnEnd(staleEnd, [queue |-> queue, staleEnd |-> None])
    /\ UNCHANGED <<parentVars, localSentences, pageVars, lastEvent, segVars, captureVars, alignVars, verdictVars, bindVars, focusVars>>

\* Synthesis of the utterance being spoken fails: utterance.onerror only logs.
UtteranceError ==
    /\ queue # <<>>
    /\ queue' = Tail(queue)
    /\ lastEvent' = "error"
    /\ UNCHANGED <<parentVars, readerVars, pageVars, staleEnd, segVars, captureVars, alignVars, verdictVars, bindVars, focusVars>>

Next ==
    \/ ReadCurrentSentence
    \/ HandleNextSentence
    \/ HandlePrevSentence
    \/ HandleSentenceClick
    \/ OnSpeedChange
    \/ SetSelectedVoice
    \/ LoadVoices
    \/ SetPageNumber
    \/ OnPageLoadSuccess
    \/ OnTextContent
    \/ MapSentencesToDom
    \/ UtteranceEnd
    \/ StaleUtteranceEnd
    \/ UtteranceError

Spec == Init /\ [][Next]_vars

(***************************************************************************)
(* The reader on the page shown, together with practice attempts evaluated *)
(* by the parent.                                                          *)
(***************************************************************************)
NextPractice ==
    \/ ReadCurrentSentence
    \/ HandleNextSentence
    \/ HandlePrevSentence
    \/ HandleSentenceClick
    \/ OnSpeedChange
    \/ SetSelectedVoice
    \/ LoadVoices
    \/ OnPageLoadSuccess
    \/ OnTextContent
    \/ MapSentencesToDom
    \/ UtteranceEnd
    \/ StaleUtteranceEnd
    \/ UtteranceError
    \/ HandlePracticeClickText
    \/ PracticeSubmit
    \/ PracticeResponse
    \/ PracticeAdvance

SpecPractice == Init /\ [][NextPractice]_vars

(***************************************************************************)
(* Runs of the segmenter on the pages of Pages.                            *)
(***************************************************************************)
InitSeg ==
    /\ ReaderInit
    /\ BindIdle
    /\ FocusIdle
    /\ segItems \in Pages
    /\ segPageHeight \in PageHeights
    /\ segSentences = <<>>
    /\ segDone = FALSE
    /\ segAcc = EmptyAcc
    /\ segFirst = <<>>
    /\ segReloads = 0
    /\ segVisited = FALSE
    /\ CaptureIdle
    /\ AlignIdle
    /\ VerdictIdle

\* The segmentation of onPageLoadSuccess applied to the items of the page.
Segmenter ==
    /\ ~segDone
    /\ segDone' = TRUE
    /\ segSentences' = SegmentPage(segItems, segPageHeight)
    /\ segFirst' = SegmentPage(segItems, segPageHeight)
    /\ segAcc' = SegmentRun(segItems, segPageHeight)
    /\ UNCHANGED <<parentVars, readerVars, pageVars, engineVars, lastEvent,
                   segItems, segPageHeight, segReloads, segVisited, captureVars,
                   alignVars, verdictVars, bindVars, focusVars>>

NextSeg == Segmenter

SpecSeg == InitSeg /\ [][NextSeg]_vars

(***************************************************************************)
(* Runs of the segmenter on a page that is loaded, left for another page   *)
(* and loaded again.                                                       *)
(***************************************************************************)
MaxReloadFrags == 2

MaxReloads == 3

ReloadPages == SeqsUpTo(Items, MaxReloadFrags)

\* Pages visited in between: one that ends inside a sentence, one of metadata
\* followed by a complete sentence, one without items.
OtherPages ==
    { << [str |-> <<"a", ".">>, height |-> 10, y |-> 50],
         [str |-> <<"a">>, height |-> 10, y |-> 50] >>,
      << [str |-> <<"a">>, height |-> 20, y |-> 50],
         [str |-> <<"a", ".">>, height |-> 10, y |-> 50],
         [str |-> <<"a", ".">>, height |-> 10, y |-> 50] >>,
      << >> }

InitReload ==
    /\ ReaderInit
    /\ BindIdle
    /\ FocusIdle
    /\ segItems \in ReloadPages
    /\ segPageHeight \in PageHeights
    /\ segSentences = <<>>
    /\ segDone = FALSE
    /\ segAcc = EmptyAcc
    /\ segFirst = <<>>
    /\ segReloads = 0
    /\ segVisited = FALSE
    /\ CaptureIdle
    /\ AlignIdle
    /\ VerdictIdle

\* onPageLoadSuccess for another page of the document.
SegmentOtherPage ==
    /\ segDone
    /\ segReloads < MaxReloads
    /\ segReloads' = segReloads + 1
    /\ segVisited' = TRUE
    /\ \E other \in OtherPages : segAcc' = SegmentRun(other, segPageHeight)
    /\ UNCHANGED <<parentVars, readerVars, pageVars, engineVars, lastEvent,
                   segItems, segPageHeight, segSentences, segDone, segFirst,
                   captureVars, alignVars, verdictVars, bindVars, focusVars>>

\* onPageLoadSuccess for the page of segItems, loaded again.
SegmentAgain ==
    /\ segDone
    /\ segReloads < MaxReloads
    /\ segReloads' = segReloads + 1
    /\ segSentences' = SegmentPage(segItems, segPageHeight)
    /\ segAcc' = SegmentRun(segItems, segPageHeight)
    /\ UNCHANGED <<parentVars, readerVars, pageVars, engineVars, lastEvent,
                   segItems, segPageHeight, segDone, segFirst, segVisited,
                   captureVars, alignVars, verdictVars, bindVars, focusVars>>

NextReload ==
    \/ Segmenter
    \/ SegmentOtherPage
    \/ SegmentAgain

SpecReload == InitReload /\ [][NextReload]_vars

(***************************************************************************)
(* Properties.                                                             *)
(***************************************************************************)
\* The first index j >= idx of a sentence that is not metadata, or
\* Len(sentences) when there is none.
FirstBodyFrom(sentences, idx) ==
    LET body == {j \in idx..(Len(sentences) - 1) : ~sentences[j + 1].isMetadata}
    IN  IF body = {} THEN Len(sentences)
        ELSE CHOOSE j \in body : \A k \in body : j <= k

\* C1: the speech engine never holds more than one utterance, speaking or
\* queued: whenever the scheduler calls speak(), cancel() has emptied the
\* queue since the previous speak().
AtMostOneUtterance == Len(queue) <= 1

\* C1 witness: an utterance is being spoken after an earlier one was cancelled.
ReplacedUtterance == Len(queue) = 1 /\ staleEnd # None

\* C2 (as claimed): after a stop request made while an utterance was being
\* spoken, playback is off and the engine holds no utterance.
StopRequestStops == lastEvent = "stop" => (~isReading /\ queue = <<>>)

\* C3 (as claimed): the completion callback of an utterance that was
\* cancelled never changes activeSentenceIndex.
CancelledEndKeepsCursor ==
    [][StaleUtteranceEnd => activeSentenceIndex' = activeSentenceIndex]_vars

\* C4: no utterance held by the engine carries the text of a metadata
\* sentence, and the step that starts playback leaves the engine speaking
\* the first non-metadata sentence at or after activeSentenceIndex, with the
\* cursor on it (or speaking nothing when there is no such sentence).
NeverSpeaksMetadata ==
    /\ [](\A i \in 1..Len(queue) : ~queue[i].isMetadata)
    /\ [][(~isReading /\ isReading') =>
            LET j == FirstBodyFrom(localSentences, activeSentenceIndex)
            IN  IF j < Len(localSentences)
                THEN /\ activeSentenceIndex' = j
                     /\ queue' = <<[idx |-> j, n |-> Len(localSentences), isMetadata |-> FALSE]>>
                ELSE queue' = <<>>]_vars

\* C4 witness: playback is on, the page begins with two metadata sentences
\* and the third sentence is being spoken.
SpeakingAfterLeadingMetadata ==
    /\ isReading
    /\ Len(localSentences) >= 3
    /\ localSentences[1].isMetadata /\ localSentences[2].isMetadata
    /\ queue # <<>> /\ Head(queue).idx = 2
    /\ activeSentenceIndex = 2

\* C5 (as claimed): once the last sentence of the page has completed,
\* playback is off and nothing is synthesized until the user acts.
LastCompletionStops == lastEvent = "last" => (~isReading /\ queue = <<>>)

\* C6: when the utterance of sentence i completes and i is not the last
\* sentence, the cursor moves to i + 1, and on, by the auto-skip, to the
\* first non-metadata sentence after i, which is then the one utterance
\* being spoken; with only metadata after i the cursor rests on i + 1 and
\* nothing is spoken.
CompletionAdvancesByOne ==
    [][(UtteranceEnd /\ Head(queue).idx < Len(localSentences) - 1) =>
         LET i == Head(queue).idx
             j == FirstBodyFrom(localSentences, i + 1)
         IN  IF j < Len(localSentences)
             THEN /\ activeSentenceIndex' = j
                  /\ queue' = <<[idx |-> j, n |-> Len(localSentences), isMetadata |-> FALSE]>>
             ELSE /\ activeSentenceIndex' = i + 1
                  /\ queue' = <<>>]_vars

\* C6 witness: a sentence that is not the last has completed and the next
\* one is being spoken.
SpeakingNextAfterCompletion ==
    /\ lastEvent = "end"
    /\ queue # <<>>
    /\ Head(queue).idx = activeSentenceIndex
    /\ activeSentenceIndex >= 1

\* C7 (as claimed): after a synthesis error nothing is synthesized until the
\* user acts.
ErrorStaysStopped == lastEvent = "error" => queue = <<>>

\* C8 (as claimed): after a page load that began while an utterance was
\* being spoken, no sentence is spoken until the user acts.
NavigationStaysStopped == lastEvent = "nav" => queue = <<>>

\* The set of the fragment indices of a sentence.
IndexSet(sentence) == {sentence.itemIndices[k] : k \in 1..Len(sentence.itemIndices)}

\* C9: every sentence of a segmented page has a non-empty, strictly
\* increasing list of fragment indices, and no two sentences share an index.
IndicesIncreasingAndDisjoint ==
    segDone =>
        \A i \in 1..Len(segSentences) :
            LET ix == segSentences[i].itemIndices
            IN  /\ Len(ix) > 0
                /\ \A k \in 1..(Len(ix) - 1) : ix[k] < ix[k + 1]
                /\ \A j \in 1..Len(segSentences) :
                       j # i => IndexSet(segSentences[i]) \cap IndexSet(segSentences[j]) = {}

\* C9 witness: a segmented page with a sentence of several fragments
\* followed by another sentence.
SeveralFragmentsThenSentence ==
    /\ segDone
    /\ Len(segSentences) >= 2
    /\ Len(segSentences[1].itemIndices) >= 2

\* C10 (as claimed): every fragment index of an earlier sentence is smaller
\* than every fragment index of a later sentence.
SentenceOrderIsFragmentOrder ==
    segDone =>
        \A i, j \in 1..Len(segSentences) :
            i < j => \A a \in IndexSet(segSentences[i]), b \in IndexSet(segSentences[j]) : a < b

\* The 0-based indices of the fragments of a page that have text and are
\* classified metadata.
MetadataFragments(items, pageHeight) ==
    IF Len(items) = 0 THEN {}
    ELSE {k \in 0..(Len(items) - 1) :
              /\ items[k + 1].str # <<>>
              /\ IsMetadataItem(items[k + 1], MedianHeight(items), pageHeight)}

\* The texts of the fragments indices, each followed by a space, joined.
RECURSIVE JoinedText(_, _)
JoinedText(items, indices) ==
    IF indices = <<>> THEN <<>>
    ELSE items[Head(indices) + 1].str \o <<" ">> \o JoinedText(items, Tail(indices))

\* t is a contiguous part of s.
IsPartOf(t, s) == \E a \in 1..(Len(s) + 1), b \in 0..Len(s) : SubSeq(s, a, b) = t

\* C11, first part: every metadata fragment with text yields exactly one
\* metadata sentence, holding its trimmed text and its index alone, and there
\* is no other metadata sentence.
OneSentencePerMetadataFragment ==
    LET M == MetadataFragments(segItems, segPageHeight)
    IN  /\ \A k \in M :
              Cardinality({i \in 1..Len(segSentences) :
                               /\ segSentences[i].isMetadata
                               /\ segSentences[i].itemIndices = <<k>>
                               /\ segSentences[i].text = Trim(segItems[k + 1].str)}) = 1
        /\ Cardinality({i \in 1..Len(segSentences) : segSentences[i].isMetadata})
               = Cardinality(M)

\* C11, second part: the body text accumulated before a metadata fragment is
\* flushed before the metadata sentence is emitted, so no non-metadata
\* sentence emitted after a metadata sentence holds a fragment that precedes
\* the metadata fragment.
FlushedBeforeMetadata ==
    \A i, j \in 1..Len(segSentences) :
        (segSentences[j].isMetadata /\ ~segSentences[i].isMetadata /\ j < i) =>
            \A a \in IndexSet(segSentences[i]) : a > segSentences[j].itemIndices[1]

\* C11, third part: a non-metadata sentence holds no index of a metadata
\* fragment, and its text is a part of the joined texts of its own fragments.
BodySentencesHoldBodyOnly ==
    LET M == MetadataFragments(segItems, segPageHeight)
    IN  \A i \in 1..Len(segSentences) :
            ~segSentences[i].isMetadata =>
                /\ IndexSet(segSentences[i]) \cap M = {}
                /\ IsPartOf(segSentences[i].text,
                            JoinedText(segItems, segSentences[i].itemIndices))

\* C11 (as claimed): metadata never merges with body text: one single-fragment
\* metadata sentence per metadata fragment, the accumulated body text flushed
\* before it, and no metadata index or text in a non-metadata sentence.
MetadataNeverMerges ==
    segDone =>
        /\ OneSentencePerMetadataFragment
        /\ FlushedBeforeMetadata
        /\ BodySentencesHoldBodyOnly

\* C12: on a page whose fragments with text are all classified metadata
\* (fragments of white space alone may be body), the segmenter produces no
\* non-metadata sentence.
OnlyMetadataGivesNoBodySentence ==
    (/\ segDone
     /\ \A k \in 0..(Len(segItems) - 1) :
            Trim(segItems[k + 1].str) # <<>> =>
                k \in MetadataFragments(segItems, segPageHeight))
    => \A i \in 1..Len(segSentences) : segSentences[i].isMetadata

\* C12 witness: a segmented page of three fragments with text, all metadata,
\* has given three metadata sentences.
OnlyMetadataPageSegmented ==
    /\ segDone
    /\ Len(segItems) = 3
    /\ MetadataFragments(segItems, segPageHeight) = {0, 1, 2}
    /\ Len(segSentences) = 3
    /\ \A i \in 1..3 : segSentences[i].isMetadata

\* C13: every run of the segmenter on the fragments and page height of a
\* page gives the sentence list the first run gave, whatever pages were
\* segmented in between.
SegmentationRepeatable == segDone => segSentences = segFirst

\* C13 witness: the page has been segmented again after another page was
\* visited, and its sentence list, of two sentences or more, is that of the
\* first run.
SamePageSegmentedAgain ==
    /\ segDone
    /\ segVisited
    /\ segReloads >= 2
    /\ segAcc.allSentences = segSentences
    /\ Len(segSentences) >= 2
    /\ segSentences = segFirst

(***************************************************************************)
(* Audio capture pipeline: startRecording, stopRecording and the stop      *)
(* handler of the recorder, in DocumentReader ("reader") and in            *)
(* SentencePractice ("practice").  A session is                            *)
(* [tracks, recorder, decoded, forwarded]: tracks "live" or "stopped";     *)
(* recorder "recording", "stopping" (stop() was called and the stop event  *)
(* is still to be dispatched), "converting" (the stop handler awaits       *)
(* convertToWav), "sending" (the stop handler awaits the scoring request)  *)
(* or "done" (the stop handler has returned); decoded "none", "ok" or      *)
(* "failed"; forwarded the buffers handed over for scoring, "wav" or       *)
(* "webm".                                                                 *)
(***************************************************************************)
MaxStarts == 3

CaptureHosts == {"reader", "practice"}

InitCapture ==
    /\ ReaderInit
    /\ BindIdle
    /\ FocusIdle
    /\ SegIdle
    /\ captureHost \in CaptureHosts
    /\ isRecording = FALSE
    /\ mediaRecorderRef = 0
    /\ acquiring = 0
    /\ starts = 0
    /\ sessions = <<>>
    /\ alerts = 0
    /\ capturedAudio = [sampleRate |-> 16000, channels |-> << <<>> >>]
    /\ wavBuffer = <<>>
    /\ audioChunks = <<>>
    /\ recorders = <<>>
    /\ AlignIdle
    /\ VerdictIdle

\* new MediaRecorder(stream) on a stream just acquired, then recorder.start().
NewSession == [tracks |-> "live", recorder |-> "recording", decoded |-> "none", forwarded |-> <<>>]

\* startRecording up to its await: navigator.mediaDevices.getUserMedia is called.
StartRecording ==
    /\ starts < MaxStarts
    /\ starts' = starts + 1
    /\ acquiring' = acquiring + 1
    /\ UNCHANGED <<isRecording, mediaRecorderRef, sessions>>

\* stopRecording of DocumentReader.
StopRecording ==
    IF mediaRecorderRef # 0 /\ isRecording
    THEN /\ sessions' = [sessions EXCEPT ![mediaRecorderRef].recorder = "stopping"]
         /\ isRecording' = FALSE
         /\ UNCHANGED <<mediaRecorderRef, acquiring, starts>>
    ELSE UNCHANGED <<isRecording, mediaRecorderRef, acquiring, starts, sessions>>

\* The Practice / Stop button of DocumentReader, disabled while isProcessing.
HandlePracticeClick ==
    /\ captureHost = "reader"
    /\ ~isProcessing
    /\ IF isRecording THEN StopRecording ELSE StartRecording
    /\ UNCHANGED <<captureHost, capturedAudio, wavBuffer, audioChunks, recorders, alerts, parentVars, readerVars, pageVars, engineVars,
                   lastEvent, segVars, alignVars, verdictVars, bindVars, focusVars>>

\* startRecording of DocumentReader after its await, getUserMedia resolved.
GetUserMediaResolves ==
    /\ captureHost = "reader"
    /\ acquiring > 0
    /\ acquiring' = acquiring - 1
    /\ sessions' = Append(sessions, NewSession)
    /\ mediaRecorderRef' = Len(sessions) + 1
    /\ isRecording' = TRUE
    /\ UNCHANGED <<captureHost, capturedAudio, wavBuffer, audioChunks, recorders, starts, alerts, parentVars, readerVars, pageVars,
                   engineVars, lastEvent, segVars, alignVars, verdictVars, bindVars, focusVars>>

\* startRecording of DocumentReader after its await, getUserMedia rejected:
\* the catch block logs and shows an alert.
GetUserMediaRejects ==
    /\ captureHost = "reader"
    /\ acquiring > 0
    /\ acquiring' = acquiring - 1
    /\ alerts' = alerts + 1
    /\ UNCHANGED <<captureHost, capturedAudio, wavBuffer, audioChunks, recorders, isRecording, mediaRecorderRef, starts, sessions,
                   parentVars, readerVars, pageVars, engineVars, lastEvent, segVars, alignVars, verdictVars, bindVars, focusVars>>

\* recorder.onstop of DocumentReader up to its await: the stop event of a
\* recorder that was stopped is dispatched and convertToWav begins.
RecorderOnStop ==
    /\ captureHost = "reader"
    /\ \E i \in 1..Len(sessions) :
        /\ sessions[i].recorder = "stopping"
        /\ sessions' = [sessions EXCEPT ![i].recorder = "converting"]
    /\ UNCHANGED <<captureHost, capturedAudio, wavBuffer, audioChunks, recorders, isRecording, mediaRecorderRef, acquiring, starts, alerts,
                   parentVars, readerVars, pageVars, engineVars, lastEvent, segVars, alignVars, verdictVars, bindVars, focusVars>>

\* A stop handler whose catch block forwards nothing.
OnStopSettledNoFallback(session, ok) ==
    [session EXCEPT !.recorder = "done",
                    !.decoded = IF ok THEN "ok" ELSE "failed",
                    !.forwarded = IF ok THEN Append(@, "wav") ELSE @,
                    !.tracks = "stopped"]

\* recorder.onstop after its await: onPractice(wavBlob) when convertToWav
\* resolved (ok), onPractice(webmBlob) from the catch block when it rejected,
\* then stream.getTracks().forEach(track => track.stop()).
OnStopSettled(session, ok) ==
    [session EXCEPT !.recorder = "done",
                    !.decoded = IF ok THEN "ok" ELSE "failed",
                    !.forwarded = Append(@, IF ok THEN "wav" ELSE "webm"),
                    !.tracks = "stopped"]

\* convertToWav settles in the stop handler of DocumentReader; onPractice is
\* practiceCurrentSentence of App.js, which runs up to its request.
ConvertToWavSettles ==
    /\ captureHost = "reader"
    /\ \E i \in 1..Len(sessions), ok \in BOOLEAN :
        /\ sessions[i].recorder = "converting"
        /\ sessions' = [sessions EXCEPT ![i] = OnStopSettled(sessions[i], ok)]
    /\ PracticeCurrentSentence
    /\ UNCHANGED <<captureHost, capturedAudio, wavBuffer, audioChunks, recorders, isRecording, mediaRecorderRef, acquiring, starts, alerts,
                   readerVars, pageVars, engineVars, lastEvent, segVars, alignVars, verdictVars, bindVars, focusVars>>

\* startRecording of SentencePractice up to its await (the Start Reading
\* button is shown while recording is false).
SentencePracticeStartRecording ==
    /\ captureHost = "practice"
    /\ ~isRecording
    /\ StartRecording
    /\ UNCHANGED <<captureHost, capturedAudio, wavBuffer, audioChunks, recorders, alerts, parentVars, readerVars, pageVars, engineVars,
                   lastEvent, segVars, alignVars, verdictVars, bindVars, focusVars>>

\* startRecording of SentencePractice after its await, getUserMedia resolved.
SentencePracticeGetUserMediaResolves ==
    /\ captureHost = "practice"
    /\ acquiring > 0
    /\ acquiring' = acquiring - 1
    /\ sessions' = Append(sessions, NewSession)
    /\ mediaRecorderRef' = Len(sessions) + 1
    /\ isRecording' = TRUE
    /\ UNCHANGED <<captureHost, capturedAudio, wavBuffer, audioChunks, recorders, starts, alerts, parentVars, readerVars, pageVars,
                   engineVars, lastEvent, segVars, alignVars, verdictVars, bindVars, focusVars>>

\* startRecording of SentencePractice after its await, getUserMedia rejected:
\* the rejection is not caught, the promise of startRecording rejects unhandled.
SentencePracticeGetUserMediaRejects ==
    /\ captureHost = "practice"
    /\ acquiring > 0
    /\ acquiring' = acquiring - 1
    /\ UNCHANGED <<captureHost, capturedAudio, wavBuffer, audioChunks, recorders, isRecording, mediaRecorderRef, starts, sessions, alerts,
                   parentVars, readerVars, pageVars, engineVars, lastEvent, segVars, alignVars, verdictVars, bindVars, focusVars>>

\* stopRecording of SentencePractice (the Stop button is shown while recording).
SentencePracticeStopRecording ==
    /\ captureHost = "practice"
    /\ isRecording
    /\ sessions' = [sessions EXCEPT ![mediaRecorderRef].recorder = "stopping"]
    /\ isRecording' = FALSE
    /\ UNCHANGED <<captureHost, capturedAudio, wavBuffer, audioChunks, recorders, mediaRecorderRef, acquiring, starts, alerts,
                   parentVars, readerVars, pageVars, engineVars, lastEvent, segVars, alignVars, verdictVars, bindVars, focusVars>>

\* The onstop handler stopRecording of SentencePractice installed, up to its
\* await: the recorded blob is posted for scoring.
SentencePracticeOnStop ==
    /\ captureHost = "practice"
    /\ \E i \in 1..Len(sessions) :
        /\ sessions[i].recorder = "stopping"
        /\ sessions' = [sessions EXCEPT ![i].recorder = "sending",
                                        ![i].forwarded = Append(@, "webm")]
    /\ UNCHANGED <<captureHost, capturedAudio, wavBuffer, audioChunks, recorders, isRecording, mediaRecorderRef, acquiring, starts, alerts,
                   parentVars, readerVars, pageVars, engineVars, lastEvent, segVars, alignVars, verdictVars, bindVars, focusVars>>

\* The scoring request of SentencePractice settles and its stop handler ends.
SentencePracticeResponse ==
    /\ captureHost = "practice"
    /\ \E i \in 1..Len(sessions) :
        /\ sessions[i].recorder = "sending"
        /\ sessions' = [sessions EXCEPT ![i].recorder = "done"]
    /\ UNCHANGED <<captureHost, capturedAudio, wavBuffer, audioChunks, recorders, isRecording, mediaRecorderRef, acquiring, starts, alerts,
                   parentVars, readerVars, pageVars, engineVars, lastEvent, segVars, alignVars, verdictVars, bindVars, focusVars>>

\* practiceCurrentSentence of App.js from the response on, for an attempt the
\* capture pipeline of DocumentReader handed over.
ScoringSettles ==
    /\ captureHost = "reader"
    /\ PracticeResponse

NextCapture ==
    \/ HandlePracticeClick
    \/ GetUserMediaResolves
    \/ GetUserMediaRejects
    \/ RecorderOnStop
    \/ ConvertToWavSettles
    \/ ScoringSettles
    \/ SentencePracticeStartRecording
    \/ SentencePracticeGetUserMediaResolves
    \/ SentencePracticeGetUserMediaRejects
    \/ SentencePracticeStopRecording
    \/ SentencePracticeOnStop
    \/ SentencePracticeResponse

SpecCapture == InitCapture /\ [][NextCapture]_vars

\* The sessions whose stream has a live track.
OpenSessions == {i \in 1..Len(sessions) : sessions[i].tracks = "live"}

\* C14 (as claimed): every capture session that was stopped releases the
\* microphone: once the stop handler of a session has ended, whether
\* normalization succeeded or decoding failed, all tracks of its stream are
\* stopped.
StoppedCaptureReleasesMicrophone ==
    \A i \in 1..Len(sessions) :
        sessions[i].recorder = "done" => sessions[i].tracks = "stopped"

\* C15 (as claimed): at most one capture session, an acquired stream with
\* its recorder, is open at any time.
AtMostOneCaptureSession == Cardinality(OpenSessions) <= 1

\* C17: a session forwards no buffer before its stop handler has run and
\* exactly one once it has: the canonical WAV when decoding succeeded, the
\* original recording when decoding failed (or when the host does not decode).
ExactlyOneBufferForwarded ==
    \A i \in 1..Len(sessions) :
        LET session == sessions[i]
        IN  IF session.recorder \in {"recording", "stopping", "converting"}
            THEN session.forwarded = <<>>
            ELSE /\ Len(session.forwarded) = 1
                 /\ session.decoded = "ok" => session.forwarded = <<"wav">>
                 /\ session.decoded # "ok" => session.forwarded = <<"webm">>

\* C17 witness: decoding failed in a stopped session of DocumentReader and the
\* original recording alone was forwarded, its microphone released.
FallbackForwarded ==
    /\ captureHost = "reader"
    /\ \E i \in 1..Len(sessions) :
        /\ sessions[i].recorder = "done"
        /\ sessions[i].decoded = "failed"
        /\ sessions[i].forwarded = <<"webm">>
        /\ sessions[i].tracks = "stopped"

\* C18 (as claimed): when microphone acquisition fails, the failure is
\* surfaced to the user, the recording state is not entered, no recorder is
\* started, no buffer is forwarded and no new acquisition is requested.
AcquisitionFailureSurfaced ==
    [][(GetUserMediaRejects \/ SentencePracticeGetUserMediaRejects) =>
          /\ alerts' = alerts + 1
          /\ isRecording' = isRecording
          /\ sessions' = sessions
          /\ mediaRecorderRef' = mediaRecorderRef
          /\ starts' = starts
          /\ acquiring' = acquiring - 1]_vars

(***************************************************************************)
(* Normalization: convertToWav and encodeWav of DocumentReader.  A buffer  *)
(* is a sequence of bytes; offsets are 0-based as in the source.  Samples  *)
(* are in thousandths of full scale (1000 is 1.0).                         *)
(***************************************************************************)
MaxFrames == 4

SampleValues == {-1500, 0, 500}

DeviceSampleRates == {16000, 48000}

\* The sample rate of the AudioContext convertToWav decodes in, which it also
\* passes to encodeWav.
ContextSampleRate == 16000

\* DataView.setUint8: the value modulo 2^8.
SetUint8(v) == <<v % 256>>

\* DataView.setUint16(offset, v, true): the value modulo 2^16, little-endian.
SetUint16(v) == <<v % 256, (v \div 256) % 256>>

\* DataView.setUint32(offset, v, true): the value modulo 2^32, little-endian.
SetUint32(v) ==
    <<v % 256, (v \div 256) % 256, (v \div 65536) % 256, (v \div 16777216) % 256>>

\* DataView.setInt16(offset, v, true): the fraction is dropped (towards zero),
\* the integer taken modulo 2^16 in two's complement, little-endian.
SetInt16(num, den) ==
    LET t == IF num < 0 THEN -((-num) \div den) ELSE num \div den
    IN  SetUint16((t + 65536) % 65536)

\* writeString: one byte per character code.
WriteString(string) ==
    LET code == [c \in {"R", "I", "F", "W", "A", "V", "E", "f", "m", "t", " ", "d", "a"} |->
                    CASE c = "R" -> 82 [] c = "I" -> 73 [] c = "F" -> 70 [] c = "W" -> 87
                      [] c = "A" -> 65 [] c = "V" -> 86 [] c = "E" -> 69 [] c = "f" -> 102
                      [] c = "m" -> 109 [] c = "t" -> 116 [] c = " " -> 32 [] c = "d" -> 100
                      [] c = "a" -> 97]
    IN  [i \in 1..Len(string) |-> SetUint8(code[string[i]])[1]]

\* Math.max(-1, Math.min(1, samples[i]))
ClampSample(s) == IF s < -1000 THEN -1000 ELSE IF s > 1000 THEN 1000 ELSE s

\* view.setInt16(offset, s < 0 ? s * 0x8000 : s * 0x7FFF, true) for each sample.
RECURSIVE WriteSamples(_)
WriteSamples(samples) ==
    IF samples = <<>> THEN <<>>
    ELSE LET s == ClampSample(Head(samples))
         IN  SetInt16(IF s < 0 THEN s * 32768 ELSE s * 32767, 1000)
                 \o WriteSamples(Tail(samples))

\* encodeWav(samples, sampleRate)
EncodeWav(samples, sampleRate) ==
    WriteString(<<"R", "I", "F", "F">>)
        \o SetUint32(36 + Len(samples) * 2)
        \o WriteString(<<"W", "A", "V", "E">>)
        \o WriteString(<<"f", "m", "t", " ">>)
        \o SetUint32(16)
        \o SetUint16(1)
        \o SetUint16(1)
        \o SetUint32(sampleRate)
        \o SetUint32(sampleRate * 2)
        \o SetUint16(2)
        \o SetUint16(16)
        \o WriteString(<<"d", "a", "t", "a">>)
        \o SetUint32(Len(samples) * 2)
        \o WriteSamples(samples)

\* The frames of a channel resampled from rate from to rate to (from is a
\* multiple of to): every (from / to)-th frame is kept.
Resample(frames, from, to) ==
    LET step == from \div to
    IN  [k \in 1..((Len(frames) + step - 1) \div step) |-> frames[(k - 1) * step + 1]]

\* audioContext.decodeAudioData(arrayBuffer) when it resolves: an AudioBuffer
\* at the sample rate of the context, with the channels of the recording.
DecodeAudioData(audio, contextRate) ==
    [sampleRate |-> contextRate,
     channelData |-> [c \in 1..Len(audio.channels) |->
                         Resample(audio.channels[c], audio.sampleRate, contextRate)]]

\* audioBuffer.getChannelData(channel)
GetChannelData(audioBuffer, channel) == audioBuffer.channelData[channel + 1]

\* A conversion that declares the sample rate of the capture device.
ConvertToWavDeviceRate(audio) ==
    EncodeWav(GetChannelData(DecodeAudioData(audio, ContextSampleRate), 0), audio.sampleRate)

\* convertToWav(blob) when decoding succeeds.
ConvertToWav(audio) ==
    EncodeWav(GetChannelData(DecodeAudioData(audio, ContextSampleRate), 0), ContextSampleRate)

\* Recordings of one or two channels of up to MaxFrames frames.
CapturedAudios ==
    LET frames == SeqsUpTo(SampleValues, MaxFrames)
    IN  { [sampleRate |-> r, channels |-> <<c>>] : r \in DeviceSampleRates, c \in frames }
        \cup { [sampleRate |-> r, channels |-> <<p[1], p[2]>>] :
                   r \in DeviceSampleRates,
                   p \in {q \in frames \X frames : Len(q[1]) = Len(q[2])} }

InitWav ==
    /\ ReaderInit
    /\ BindIdle
    /\ FocusIdle
    /\ SegIdle
    /\ captureHost = "reader"
    /\ isRecording = FALSE
    /\ mediaRecorderRef = 0
    /\ acquiring = 0
    /\ starts = 0
    /\ sessions = <<>>
    /\ alerts = 0
    /\ capturedAudio \in CapturedAudios
    /\ wavBuffer = <<>>
    /\ audioChunks = <<>>
    /\ recorders = <<>>
    /\ AlignIdle
    /\ VerdictIdle

\* const wavBlob = await convertToWav(webmBlob), decoding succeeds.
ConvertRecording ==
    /\ wavBuffer = <<>>
    /\ wavBuffer' = ConvertToWav(capturedAudio)
    /\ UNCHANGED <<captureHost, isRecording, mediaRecorderRef, acquiring, starts, sessions,
                   alerts, capturedAudio, audioChunks, recorders, parentVars, readerVars, pageVars, engineVars,
                   lastEvent, segVars, alignVars, verdictVars, bindVars, focusVars>>

NextWav == ConvertRecording

SpecWav == InitWav /\ [][NextWav]_vars

\* DataView.getUint16(offset, true) and getUint32(offset, true) of a buffer.
GetUint16(buffer, offset) == buffer[offset + 1] + 256 * buffer[offset + 2]

GetUint32(buffer, offset) ==
    buffer[offset + 1] + 256 * buffer[offset + 2]
        + 65536 * buffer[offset + 3] + 16777216 * buffer[offset + 4]

\* The number of samples decoding gives for the recording.
DecodedSampleCount ==
    Len(GetChannelData(DecodeAudioData(capturedAudio, ContextSampleRate), 0))

\* C16: for the n samples decoded from a recording of any channel count and
\* sample rate, the normalized buffer is 44 + 2n bytes long and its header
\* declares format tag 1, one channel, 16000 Hz, 16 bits per sample, a RIFF
\* chunk length of 36 + 2n and a data length of 2n.
CanonicalWavHeader ==
    wavBuffer # <<>> =>
        LET n == DecodedSampleCount
        IN  /\ Len(wavBuffer) = 44 + 2 * n
            /\ \A i \in 1..Len(wavBuffer) : wavBuffer[i] \in 0..255
            /\ GetUint16(wavBuffer, 20) = 1
            /\ GetUint16(wavBuffer, 22) = 1
            /\ GetUint32(wavBuffer, 24) = 16000
            /\ GetUint16(wavBuffer, 34) = 16
            /\ GetUint32(wavBuffer, 4) = 36 + 2 * n
            /\ GetUint32(wavBuffer, 40) = 2 * n

\* C16 witness: a stereo recording at 48000 Hz has been normalized to a
\* buffer of two samples.
StereoRecordingNormalized ==
    /\ wavBuffer # <<>>
    /\ capturedAudio.sampleRate = 48000
    /\ Len(capturedAudio.channels) = 2
    /\ DecodedSampleCount = 2
    /\ Len(wavBuffer) = 48
    /\ GetUint32(wavBuffer, 24) = 16000

(***************************************************************************)
(* Alignment: getWordMatchMap of SentencePractice and getWordFeedback of   *)
(* DocumentReader.  In the texts aligned "a" and "b" stand for lower-case  *)
(* letters, "B" for the upper-case letter of "b", "." for any punctuation  *)
(* character and " " for white space.                                      *)
(***************************************************************************)
MaxExpectedLen == 4

MaxSpokenLen == 3

AlignChars == {"a", "B", " ", "."}

\* \w of a regular expression.
IsWordChar(c) == c \in {"a", "b", "B"}

\* String.prototype.toLowerCase
ToLowerCase(s) == [i \in 1..Len(s) |-> IF s[i] = "B" THEN "b" ELSE s[i]]

\* s.replace(/[^\w\s]/g, '')
StripPunctuation(s) == SelectSeq(s, LAMBDA c : IsWordChar(c) \/ IsSpace(c))

\* The position of the first white space character of s, 0 when it has none.
FirstSpace(s) ==
    IF \E i \in 1..Len(s) : IsSpace(s[i])
    THEN CHOOSE i \in 1..Len(s) : IsSpace(s[i]) /\ \A j \in 1..(i - 1) : ~IsSpace(s[j])
    ELSE 0

\* s.split(" "): s is cut at every single space; two spaces in a row, or a
\* space at either end, give an empty string.
RECURSIVE SplitOnSpace(_)
SplitOnSpace(s) ==
    LET i == FirstSpace(s)
    IN  IF i = 0 THEN <<s>>
        ELSE <<SubSeq(s, 1, i - 1)>> \o SplitOnSpace(SubSeq(s, i + 1, Len(s)))

\* s.split(/\s+/): s is cut at every run of white space; a run at either end
\* gives an empty string.
RECURSIVE SplitOnWhitespace(_)
SplitOnWhitespace(s) ==
    LET i == FirstSpace(s)
    IN  IF i = 0 THEN <<s>>
        ELSE <<SubSeq(s, 1, i - 1)>> \o SplitOnWhitespace(TrimLeft(SubSeq(s, i, Len(s))))

\* Array.prototype.includes
Includes(array, x) == \E i \in 1..Len(array) : array[i] = x

\* getWordMatchMap(expected, spoken) of SentencePractice.
GetWordMatchMap(expected, spoken) ==
    LET exp == SplitOnSpace(ToLowerCase(expected))
        spk == IF spoken.present THEN SplitOnSpace(ToLowerCase(spoken.text)) ELSE <<>>
    IN  [i \in 1..Len(exp) |->
            [word |-> exp[i], correct |-> i <= Len(spk) /\ spk[i] = exp[i]]]

\* getWordFeedback() of DocumentReader for a practice result, on the text of
\* the active sentence and practiceResult.result?.spoken_text || "".
GetWordFeedback(expectedTextOfSentence, spokenText) ==
    LET expected == SplitOnWhitespace(StripPunctuation(ToLowerCase(expectedTextOfSentence)))
        spoken   == SplitOnWhitespace(StripPunctuation(ToLowerCase(
                        IF spokenText.present THEN spokenText.text ELSE <<>>)))
    IN  [i \in 1..Len(expected) |->
            [word |-> expected[i], correct |-> Includes(spoken, expected[i])]]

\* Texts of three words, longer than the texts enumerated.
ThreeWordTexts ==
    { <<"a", " ", "b", " ", "a">>, <<"a", " ", "b", " ", "b">>,
      <<"b", " ", "a", " ", "a">>, <<"a", " ", "B", " ", "a", ".">> }

\* Sentence texts: trimmed, with a letter or more.
ExpectedTexts ==
    { t \in SeqsUpTo(AlignChars, MaxExpectedLen) \cup ThreeWordTexts :
          Trim(t) = t /\ \E i \in 1..Len(t) : IsWordChar(t[i]) }

Transcripts ==
    { [present |-> TRUE, text |-> t] : t \in SeqsUpTo(AlignChars, MaxSpokenLen) \cup ThreeWordTexts }
        \cup { [present |-> FALSE, text |-> <<>>] }

InitAlign ==
    /\ ReaderInit
    /\ BindIdle
    /\ FocusIdle
    /\ SegIdle
    /\ CaptureIdle
    /\ expectedText \in ExpectedTexts
    /\ transcript \in Transcripts
    /\ wordMatchMap = <<>>
    /\ wordFeedback = <<>>
    /\ aligned = FALSE
    /\ VerdictIdle

\* A practice result is rendered: both components align the expected text
\* with the transcript.
AlignResult ==
    /\ ~aligned
    /\ aligned' = TRUE
    /\ wordMatchMap' = GetWordMatchMap(expectedText, transcript)
    /\ wordFeedback' = GetWordFeedback(expectedText, transcript)
    /\ UNCHANGED <<expectedText, transcript, parentVars, readerVars, pageVars, engineVars,
                   lastEvent, segVars, captureVars, verdictVars, bindVars, focusVars>>

NextAlign == AlignResult

SpecAlign == InitAlign /\ [][NextAlign]_vars

\* The words of a text: the maximal runs of characters other than white
\* space of the text lower-cased and stripped of punctuation.
RECURSIVE WordsOf(_)
WordsOf(s) ==
    LET t == TrimLeft(s)
        i == FirstSpace(t)
    IN  IF t = <<>> THEN <<>>
        ELSE IF i = 0 THEN <<t>>
        ELSE <<SubSeq(t, 1, i - 1)>> \o WordsOf(SubSeq(t, i, Len(t)))

NormalizedWords(s) == WordsOf(StripPunctuation(ToLowerCase(s)))

ExpectedWords == NormalizedWords(expectedText)

SpokenWords == IF transcript.present THEN NormalizedWords(transcript.text) ELSE <<>>

\* C19 (as claimed): positional alignment has one entry per expected word,
\* and word i is marked correct iff the spoken word i exists and equals it,
\* both texts lower-cased, stripped of punctuation and split on white space.
PositionalAlignment ==
    aligned =>
        /\ Len(wordMatchMap) = Len(ExpectedWords)
        /\ \A i \in 1..Len(wordMatchMap) :
               /\ wordMatchMap[i].word = ExpectedWords[i]
               /\ wordMatchMap[i].correct =
                      (i <= Len(SpokenWords) /\ SpokenWords[i] = ExpectedWords[i])

\* C20 (as claimed): set-membership alignment has one entry per expected
\* word, and word i is marked correct iff it occurs anywhere among the spoken
\* words, so that with an empty transcript no word is marked correct.
SetMembershipAlignment ==
    aligned =>
        /\ Len(wordFeedback) = Len(ExpectedWords)
        /\ \A i \in 1..Len(wordFeedback) :
               /\ wordFeedback[i].word = ExpectedWords[i]
               /\ wordFeedback[i].correct = Includes(SpokenWords, ExpectedWords[i])
        /\ SpokenWords = <<>> => \A i \in 1..Len(wordFeedback) : ~wordFeedback[i].correct

(***************************************************************************)
(* Verdict tiers: what the feedback surfaces show for the score of a       *)
(* scoring result.  A score is a number of steps of 1 / ScoreSteps, so     *)
(* score >= 0.85 reads 100 * score >= 85 * ScoreSteps.                     *)
(***************************************************************************)
ScoreSteps == 100

Scores == 0..ScoreSteps

\* An encouragement whose first tier begins above 0.85.
GetEncouragementAbove(s) ==
    IF 100 * s > 85 * ScoreSteps THEN "Great job! Your pronunciation was clear and confident"
    ELSE IF 100 * s >= 65 * ScoreSteps THEN "Nice effort - you're very close! Try reading a little slower"
    ELSE "Good try! Let's practice again - focus on the highlighted words"

\* getEncouragement(score) of SentencePractice.
GetEncouragement(s) ==
    IF 100 * s >= 85 * ScoreSteps THEN "Great job! Your pronunciation was clear and confident"
    ELSE IF 100 * s >= 65 * ScoreSteps THEN "Nice effort - you're very close! Try reading a little slower"
    ELSE "Good try! Let's practice again - focus on the highlighted words"

\* The background of the score bar of SentencePractice.
ScoreBarBackground(s) ==
    IF 100 * s >= 85 * ScoreSteps THEN "#4caf50"
    ELSE IF 100 * s >= 65 * ScoreSteps THEN "#ffa726"
    ELSE "#ef5350"

\* The colour of the accuracy score in the practice feedback of DocumentReader.
AccuracyScoreColor(s) ==
    IF 100 * s >= 85 * ScoreSteps THEN "#48BB78" ELSE "#ED8936"

InitVerdict ==
    /\ ReaderInit
    /\ BindIdle
    /\ FocusIdle
    /\ SegIdle
    /\ CaptureIdle
    /\ AlignIdle
    /\ score \in Scores
    /\ scoreSurfaces = None
    /\ correctionTimers = <<>>

\* A scoring result with this score is rendered by SentencePractice and by
\* DocumentReader.
RenderResult ==
    /\ scoreSurfaces = None
    /\ scoreSurfaces' = [encouragement |-> GetEncouragement(score),
                         scoreBar |-> ScoreBarBackground(score),
                         accuracyScore |-> AccuracyScoreColor(score)]
    /\ UNCHANGED <<score, correctionTimers, parentVars, readerVars, pageVars, engineVars,
                   lastEvent, segVars, captureVars, alignVars, bindVars, focusVars>>

NextVerdict == RenderResult

SpecVerdict == InitVerdict /\ [][NextVerdict]_vars

\* The verdict tier of a score, by the three intervals of the scale.
VerdictTier(s) ==
    CHOOSE tier \in {"Excellent", "Close", "NeedsWork"} :
        /\ tier = "Excellent" <=> 20 * s >= 17 * ScoreSteps
        /\ tier = "Close" <=> (20 * s >= 13 * ScoreSteps /\ 20 * s < 17 * ScoreSteps)
        /\ tier = "NeedsWork" <=> 20 * s < 13 * ScoreSteps

\* C21: every score has exactly one verdict tier, Excellent from 0.85 on,
\* Close from 0.65 up to but not including 0.85, NeedsWork below 0.65, and
\* every surface that labels or colours the score shows what belongs to that
\* tier: the message and the bar colour of the tier, and the accuracy colour
\* that tells Excellent from the two other tiers.
VerdictTierOfScore ==
    scoreSurfaces # None =>
        LET tier == VerdictTier(score)
        IN  /\ Cardinality({t \in {"Excellent", "Close", "NeedsWork"} :
                               /\ t = "Excellent" <=> 20 * score >= 17 * ScoreSteps
                               /\ t = "Close" <=> (20 * score >= 13 * ScoreSteps
                                                   /\ 20 * score < 17 * ScoreSteps)
                               /\ t = "NeedsWork" <=> 20 * score < 13 * ScoreSteps}) = 1
            /\ scoreSurfaces.encouragement =
                   CASE tier = "Excellent" -> "Great job! Your pronunciation was clear and confident"
                     [] tier = "Close" -> "Nice effort - you're very close! Try reading a little slower"
                     [] tier = "NeedsWork" -> "Good try! Let's practice again - focus on the highlighted words"
            /\ scoreSurfaces.scoreBar =
                   CASE tier = "Excellent" -> "#4caf50"
                     [] tier = "Close" -> "#ffa726"
                     [] tier = "NeedsWork" -> "#ef5350"
            /\ (scoreSurfaces.accuracyScore = "#48BB78") <=> (tier = "Excellent")

\* C21 witness: the score 0.85 itself has been rendered, in the tier Excellent
\* on every surface.
BoundaryScoreRendered ==
    /\ scoreSurfaces # None
    /\ 20 * score = 17 * ScoreSteps
    /\ scoreSurfaces.encouragement = "Great job! Your pronunciation was clear and confident"
    /\ scoreSurfaces.scoreBar = "#4caf50"
    /\ scoreSurfaces.accuracyScore = "#48BB78"

(***************************************************************************)
(* Failed scoring requests.                                                *)
(***************************************************************************)
\* C22 (as claimed): when the request of a practice attempt fails (an error,
\* or a response without success), no practice result and no word feedback is
\* recorded, the attempt counters stay as they were, the sentence cursor does
\* not move and no advance is armed, and the failure status is shown.
ScoringFailureSurfaced ==
    [][\A outcome \in {"no success", "error"} :
          (PracticeResponse /\ EvaluationSettles(outcome)) =>
              /\ practiceResult' = practiceResult
              /\ wordFeedback' = wordFeedback
              /\ sessionStats' = sessionStats
              /\ currentSentenceIndex' = currentSentenceIndex
              /\ advancePending' = advancePending
              /\ status' = "Practice encounterd an error"]_vars

(***************************************************************************)
(* The table of bound elements.                                            *)
(***************************************************************************)
\* C23 (as claimed): once a page change has been processed (the page has
\* loaded, its text content has been handled and no binding timer is armed),
\* the table of bound elements holds no element of a page shown earlier.
BindingsOfPageShownOnly ==
    (~pageLoading /\ ~extracting /\ bindPending = None) =>
        domItemsMap # "of an earlier page"

(***************************************************************************)
(* What is practised.                                                      *)
(***************************************************************************)
\* C24 (as claimed): the sentence whose text the Practice button hands over
\* for scoring is never a metadata sentence, wherever the cursor rests.
PractisedSentenceIsBody ==
    [][HandlePracticeClickText => ~localSentences[activeSentenceIndex + 1].isMetadata]_vars

(***************************************************************************)
(* Sentences of the body branch.                                           *)
(***************************************************************************)
\* C25 (as claimed): every body sentence the segmenter emits is one run of
\* non-terminal characters with the terminal punctuation that follows it (or
\* the unterminated remainder): splitting its text at the terminators gives
\* the text back as the only piece.
BodySentenceIsOneRun ==
    segDone =>
        \A i \in 1..Len(segSentences) :
            ~segSentences[i].isMetadata =>
                SplitSentences(segSentences[i].text) = <<segSentences[i].text>>

(***************************************************************************)
(* Classification of fragments.                                            *)
(***************************************************************************)
\* The metadata sentence emitted for the fragment at 0-based index idx, if any.
EmittedAsMetadata(sentences, idx) ==
    \E i \in 1..Len(sentences) :
        sentences[i].isMetadata /\ sentences[i].itemIndices = <<idx>>

\* The middle element (position floor(n / 2)) of the ascending heights of all
\* fragments of the page.
MiddleHeight(items) ==
    SortedNth([i \in 1..Len(items) |-> items[i].height], Len(items) \div 2)

\* C26 (as claimed): a run of the segmenter leaves the fragments as they are
\* and emits a metadata sentence for a non-empty fragment exactly if its
\* height exceeds 1.3 times the median fragment height of the page, or its
\* trimmed text matches the serial-marker pattern, or its baseline lies in
\* the top or the bottom tenth of the page height.
ClassifiedByMedianHeight ==
    [][Segmenter =>
          /\ segItems' = segItems
          /\ \A k \in 1..Len(segItems) :
                 segItems[k].str # <<>> =>
                     (EmittedAsMetadata(segSentences', k - 1) <=>
                          \/ 10 * segItems[k].height > 13 * MiddleHeight(segItems)
                          \/ SerialPattern(Trim(segItems[k].str))
                          \/ 10 * segItems[k].y < segPageHeight
                          \/ 10 * segItems[k].y > 9 * segPageHeight)]_vars

\* C26 (amended): as claimed, with the height 12 taking the place of a median
\* fragment height of 0.
ClassifiedByMedianHeightOr12 ==
    [][Segmenter =>
          /\ segItems' = segItems
          /\ \A k \in 1..Len(segItems) :
                 segItems[k].str # <<>> =>
                     (EmittedAsMetadata(segSentences', k - 1) <=>
                          \/ 10 * segItems[k].height >
                                 13 * (IF MiddleHeight(segItems) = 0 THEN 12
                                       ELSE MiddleHeight(segItems))
                          \/ SerialPattern(Trim(segItems[k].str))
                          \/ 10 * segItems[k].y < segPageHeight
                          \/ 10 * segItems[k].y > 9 * segPageHeight)]_vars

\* C26 witness: a page whose median fragment height is 0 has been segmented,
\* and a fragment of positive height on it was taken for body text.
SmallPrintAmongRotatedText ==
    /\ segDone
    /\ segItems # <<>>
    /\ MiddleHeight(segItems) = 0
    /\ \E k \in 1..Len(segItems) :
           /\ segItems[k].height > 0
           /\ ~EmittedAsMetadata(segSentences, k - 1)
           /\ \E i \in 1..Len(segSentences) :
                  /\ ~segSentences[i].isMetadata
                  /\ \E j \in 1..Len(segSentences[i].itemIndices) :
                         segSentences[i].itemIndices[j] = k - 1

(***************************************************************************)
(* Fragments without text.                                                 *)
(***************************************************************************)
\* C27: a fragment with empty text is skipped: no sentence names its index
\* among its source indices, and the texts, flags and numbers of source
\* fragments of the sentences of the page are those the loop gives for the
\* page without its empty fragments (with the same heading threshold), so an
\* empty fragment neither emits a sentence nor flushes or changes the
\* accumulator.
EmptyFragmentSkipped ==
    segDone =>
        LET kept == SelectSeq(segItems, LAMBDA item : item.str # <<>>)
            r    == FlushAcc(SegmentLoop(EmptyAcc, kept, 1, MedianHeight(segItems),
                                         segPageHeight)).allSentences
        IN  /\ Len(segSentences) = Len(r)
            /\ \A i \in 1..Len(segSentences) :
                   /\ segSentences[i].text = r[i].text
                   /\ segSentences[i].isMetadata = r[i].isMetadata
                   /\ Len(segSentences[i].itemIndices) = Len(r[i].itemIndices)
                   /\ \A j \in 1..Len(segSentences[i].itemIndices) :
                          segItems[segSentences[i].itemIndices[j] + 1].str # <<>>

\* C27 witness: a sentence was built from the fragments on both sides of an
\* empty fragment.
SentenceAcrossEmptyFragment ==
    /\ segDone
    /\ \E k \in 2..(Len(segItems) - 1) :
           /\ segItems[k].str = <<>>
           /\ \E i \in 1..Len(segSentences) :
                  /\ ~segSentences[i].isMetadata
                  /\ segSentences[i].itemIndices = <<k - 2, k>>

(***************************************************************************)
(* Pages without sentences.                                                *)
(***************************************************************************)
\* C28 (as claimed): when the load of a page without usable fragments has
\* completed, the sentence list is empty, the cursor is 0 and the engine
\* holds no utterance; and pressing Start on a page without sentences gives
\* the engine nothing to speak.
EmptyPageLoadsAtCursorZero ==
    [][/\ (OnTextContent /\ localSentences' = <<>>) =>
              (activeSentenceIndex' = 0 /\ queue' = <<>>)
       /\ (ReadCurrentSentence /\ localSentences = <<>>) => queue' = <<>>]_vars

(***************************************************************************)
(* Starting playback.                                                      *)
(***************************************************************************)
\* C29 (as claimed): after Start was pressed while playback was off,
\* playback is on, and on a page with a body sentence at or after the cursor
\* the engine speaks the sentence at the cursor; on a page without sentences
\* the engine holds nothing.
StartSpeaksAtCursor ==
    lastEvent = "start" =>
        /\ isReading
        /\ FirstBodyFrom(localSentences, activeSentenceIndex) < Len(localSentences) =>
               /\ queue # <<>>
               /\ Head(queue).idx = activeSentenceIndex
        /\ localSentences = <<>> => queue = <<>>

(***************************************************************************)
(* Clicks on bound sentences.                                              *)
(***************************************************************************)
\* C30 (as claimed): a click handler moves the cursor to a non-metadata
\* sentence of the page (metadata sentences have no handler), and a click
\* made while an utterance is being spoken during playback cancels that
\* utterance: the engine then holds nothing or an utterance begun anew.
ClickCancelsInFlight ==
    [][HandleSentenceClick =>
          /\ activeSentenceIndex' < Len(localSentences)
          /\ ~localSentences[activeSentenceIndex' + 1].isMetadata
          /\ (isReading /\ queue # <<>>) => queue' # queue]_vars

(***************************************************************************)
(* Corrective read-back: the auto-correction effect of DocumentReader.     *)
(***************************************************************************)
\* wordFeedback.filter(w => !w.correct).map(w => w.word)
MissedWords(feedback) ==
    LET missed == SelectSeq(feedback, LAMBDA w : ~w.correct)
    IN  [i \in 1..Len(missed) |-> missed[i].word]

\* A condition that takes the score 0.85 itself for a score to correct.
RequestsCorrectionAt85(s, feedback) ==
    100 * s <= 85 * ScoreSteps /\ MissedWords(feedback) # <<>>

\* practiceResult.result.score < 0.85, then missedWords.length > 0
RequestsCorrection(s, feedback) ==
    100 * s < 85 * ScoreSteps /\ MissedWords(feedback) # <<>>

\* The utterance of a read-back: it has no onend handler, so its closure
\* holds no sentence (n = 0).
CorrectionUtterance == [idx |-> 0, n |-> 0, isMetadata |-> FALSE]

\* The effect on [practiceResult] for a result with score s and the word
\* feedback of the render: cancel(), then the timer that will speak.
AutoCorrection(s, feedback) ==
    IF RequestsCorrection(s, feedback)
    THEN /\ \E keep \in BOOLEAN :
                /\ queue' = EngineCancel(Engine, keep).queue
                /\ staleEnd' = EngineCancel(Engine, keep).staleEnd
         /\ correctionTimers' = Append(correctionTimers, MissedWords(feedback))
    ELSE UNCHANGED <<queue, staleEnd, correctionTimers>>

\* Transcripts of up to three words.
ReadBackTranscripts ==
    { [present |-> TRUE, text |-> t] : t \in ThreeWordTexts \cup {<<>>, <<"a">>, <<"B">>} }
        \cup { [present |-> FALSE, text |-> <<>>] }

InitReadBack ==
    /\ ReaderInit
    /\ BindIdle
    /\ FocusIdle
    /\ SegIdle
    /\ CaptureIdle
    /\ expectedText \in ThreeWordTexts
    /\ transcript \in ReadBackTranscripts
    /\ wordMatchMap = <<>>
    /\ wordFeedback = <<>>
    /\ aligned = FALSE
    /\ score \in Scores
    /\ scoreSurfaces = None
    /\ correctionTimers = <<>>

\* A practice result reaches DocumentReader: the render computes the word
\* feedback and the auto-correction effect runs.
PracticeResultArrives ==
    /\ ~aligned
    /\ aligned' = TRUE
    /\ wordFeedback' = GetWordFeedback(expectedText, transcript)
    /\ AutoCorrection(score, GetWordFeedback(expectedText, transcript))
    /\ UNCHANGED <<expectedText, transcript, wordMatchMap, score, scoreSurfaces,
                   parentVars, readerVars, pageVars, lastEvent, segVars, captureVars, bindVars, focusVars>>

\* The timer of a read-back fires: window.speechSynthesis.speak(utterance).
CorrectionTimerFires ==
    /\ correctionTimers # <<>>
    /\ correctionTimers' = Tail(correctionTimers)
    /\ queue' = EngineSpeak(Engine, CorrectionUtterance).queue
    /\ UNCHANGED <<score, scoreSurfaces, parentVars, readerVars, pageVars, staleEnd,
                   lastEvent, segVars, captureVars, alignVars, bindVars, focusVars>>

NextReadBack == PracticeResultArrives \/ CorrectionTimerFires

SpecReadBack == InitReadBack /\ [][NextReadBack]_vars

\* C31: when a scoring result arrives, a read-back is requested exactly if
\* the score is below 0.85 and an expected word is classified incorrect, and
\* the words of the one read-back requested are the expected words classified
\* incorrect, in the order of the expected text.
ReadBackOfMissedWords ==
    [][PracticeResultArrives =>
          LET missed == {i \in 1..Len(wordFeedback') : ~wordFeedback'[i].correct}
              nth(j) == CHOOSE i \in missed : Cardinality({k \in missed : k < i}) = j - 1
          IN  IF 20 * score < 17 * ScoreSteps /\ missed # {}
              THEN /\ Len(correctionTimers') = 1
                   /\ Len(correctionTimers'[1]) = Cardinality(missed)
                   /\ \A j \in 1..Cardinality(missed) :
                          correctionTimers'[1][j] = wordFeedback'[nth(j)].word
              ELSE correctionTimers' = <<>>]_vars

\* C31 witness: a read-back of two missed words, the first and the third of
\* three expected words, has been requested.
ReadBackOfTwoWords ==
    /\ aligned
    /\ Len(wordFeedback) = 3
    /\ ~wordFeedback[1].correct /\ wordFeedback[2].correct /\ ~wordFeedback[3].correct
    /\ correctionTimers = <<(<<wordFeedback[1].word, wordFeedback[3].word>>)>>

(***************************************************************************)
(* The read-back together with the read-aloud scheduler of the page shown  *)
(* (start and stop, next and previous, page load, engine events) and       *)
(* practice attempts: a successful response re-renders DocumentReader with *)
(* the new practiceResult, and the auto-correction effect runs.            *)
(***************************************************************************)
\* Word feedback of a result for a sentence of one word, missed or not.
OneWordFeedback(missed) == <<[word |-> <<"a">>, correct |-> ~missed]>>

\* The request of the attempt being evaluated settles, and DocumentReader
\* renders what the parent has set.
PracticeResponseRendered ==
    /\ isProcessing
    /\ \E outcome \in Outcomes, low \in BOOLEAN, missed \in BOOLEAN :
           /\ EvaluationSettles(outcome)
           /\ IF outcome \in {"correct", "incorrect"}
              THEN AutoCorrection(IF low THEN 0 ELSE ScoreSteps, OneWordFeedback(missed))
              ELSE UNCHANGED <<queue, staleEnd, correctionTimers>>
    /\ UNCHANGED <<readerVars, pageVars, lastEvent, segVars, captureVars, alignVars,
                   score, scoreSurfaces, bindVars, focusVars>>

NextReadBackWhileReading ==
    \/ ReadCurrentSentence
    \/ HandleNextSentence
    \/ HandlePrevSentence
    \/ OnPageLoadSuccess
    \/ OnTextContent
    \/ UtteranceEnd
    \/ StaleUtteranceEnd
    \/ UtteranceError
    \/ PracticeSubmit
    \/ PracticeResponseRendered
    \/ CorrectionTimerFires

SpecReadBackWhileReading == Init /\ [][NextReadBackWhileReading]_vars

NewRecorder == [state |-> "recording", data |-> <<>>, closure |-> <<>>, blob |-> <<>>]

InitChunks ==
    /\ ReaderInit
    /\ BindIdle
    /\ FocusIdle
    /\ SegIdle
    /\ captureHost \in CaptureHosts
    /\ isRecording = FALSE
    /\ mediaRecorderRef = 0
    /\ acquiring = 0
    /\ starts = 0
    /\ sessions = <<>>
    /\ alerts = 0
    /\ capturedAudio = [sampleRate |-> 16000, channels |-> << <<>> >>]
    /\ wavBuffer = <<>>
    /\ audioChunks = <<>>
    /\ recorders = <<>>
    /\ AlignIdle
    /\ VerdictIdle

\* startRecording of either component up to its await, from the button that
\* is shown while nothing is recorded (in DocumentReader disabled while
\* isProcessing).
CaptureRequested ==
    /\ ~isRecording
    /\ captureHost = "reader" => ~isProcessing
    /\ StartRecording
    /\ UNCHANGED <<captureHost, alerts, capturedAudio, wavBuffer, audioChunks, recorders,
                   parentVars, readerVars, pageVars, engineVars, lastEvent, segVars,
                   alignVars, verdictVars, bindVars, focusVars>>

\* startRecording after its await.  Granted: the recorder is constructed and
\* kept in mediaRecorderRef, the buffer is reset (audioChunksRef.current = [],
\* setChunks([])), the handlers are installed and recorder.start() is called.
\* Refused: DocumentReader alerts, SentencePractice lets the promise reject.
CaptureStarts ==
    /\ acquiring > 0
    /\ acquiring' = acquiring - 1
    /\ \E granted \in BOOLEAN :
        IF granted
        THEN /\ recorders' = Append(recorders, NewRecorder)
             /\ mediaRecorderRef' = Len(recorders) + 1
             /\ audioChunks' = <<>>
             /\ isRecording' = TRUE
             /\ UNCHANGED alerts
        ELSE /\ alerts' = IF captureHost = "reader" THEN alerts + 1 ELSE alerts
             /\ UNCHANGED <<recorders, mediaRecorderRef, audioChunks, isRecording>>
    /\ UNCHANGED <<captureHost, starts, sessions, capturedAudio, wavBuffer, parentVars,
                   readerVars, pageVars, engineVars, lastEvent, segVars, alignVars,
                   verdictVars, bindVars, focusVars>>

\* stopRecording of either component: mediaRecorderRef.current.stop().  The
\* stop handler SentencePractice installs here closes over the chunks array
\* of the render the clicked handler belongs to.
CaptureStops ==
    /\ isRecording
    /\ mediaRecorderRef # 0
    /\ recorders' = [recorders EXCEPT ![mediaRecorderRef].state = "stopping",
                                      ![mediaRecorderRef].closure = audioChunks]
    /\ isRecording' = FALSE
    /\ UNCHANGED <<captureHost, mediaRecorderRef, acquiring, starts, sessions, alerts,
                   capturedAudio, wavBuffer, audioChunks, parentVars, readerVars, pageVars,
                   engineVars, lastEvent, segVars, alignVars, verdictVars, bindVars, focusVars>>

\* recorder.ondataavailable as DocumentReader installs it: a chunk with data
\* is pushed on whatever array audioChunksRef holds.
OnDataAvailable(chunks, chunk, size) ==
    IF size > 0 THEN Append(chunks, chunk) ELSE chunks

\* The dataavailable event of a recorder that was stopped.
RecorderDataAvailable ==
    /\ \E i \in 1..Len(recorders), size \in 0..1 :
        /\ recorders[i].state = "stopping"
        /\ recorders' = [recorders EXCEPT ![i].state = "flushed",
                                          ![i].data = IF size > 0 THEN <<i>> ELSE <<>>]
        /\ audioChunks' = OnDataAvailable(audioChunks, i, size)
    /\ UNCHANGED <<captureHost, isRecording, mediaRecorderRef, acquiring, starts, sessions,
                   alerts, capturedAudio, wavBuffer, parentVars, readerVars, pageVars,
                   engineVars, lastEvent, segVars, alignVars, verdictVars, bindVars, focusVars>>

\* The chunks a stop handler puts in its Blob: DocumentReader reads
\* audioChunksRef.current when the event is handled, SentencePractice the
\* array its handler closed over.
RecordedBlob(host, recorder, chunks) ==
    IF host = "practice" THEN recorder.closure ELSE chunks

\* The stop event of a recorder: the Blob is built and handed on, by
\* DocumentReader through convertToWav to onPractice (practiceCurrentSentence
\* of App.js), by SentencePractice to its own scoring request.
RecorderStopEvent ==
    /\ \E i \in 1..Len(recorders) :
        /\ recorders[i].state = "flushed"
        /\ recorders' = [recorders EXCEPT
                            ![i].state = "done",
                            ![i].blob = RecordedBlob(captureHost, recorders[i], audioChunks)]
    /\ IF captureHost = "reader" THEN PracticeCurrentSentence ELSE UNCHANGED parentVars
    /\ UNCHANGED <<captureHost, isRecording, mediaRecorderRef, acquiring, starts, sessions,
                   alerts, capturedAudio, wavBuffer, audioChunks, readerVars, pageVars,
                   engineVars, lastEvent, segVars, alignVars, verdictVars, bindVars, focusVars>>

NextChunks ==
    \/ CaptureRequested
    \/ CaptureStarts
    \/ CaptureStops
    \/ RecorderDataAvailable
    \/ RecorderStopEvent
    \/ ScoringSettles

SpecChunks == InitChunks /\ [][NextChunks]_vars

\* C33 (as claimed): the recording a stop handler hands on consists of
\* exactly the chunks its own recorder delivered, in order, the chunk
\* delivered when the recorder stops included.
RecordingIsSessionChunks ==
    \A i \in 1..Len(recorders) :
        recorders[i].state = "done" => recorders[i].blob = recorders[i].data

\* C34 (as claimed): every step of the practice pipeline, which are the steps
\* that change isProcessing or the session statistics (an attempt submitted,
\* its scoring result or failure arriving, and what the result schedules),
\* leaves activeSentenceIndex and the playing flag as they were.
PracticeLeavesCursor ==
    [][(sessionStats' # sessionStats \/ isProcessing' # isProcessing)
          => UNCHANGED <<activeSentenceIndex, isReading>>]_vars

\* C35 (as claimed): whenever the page shown has at least one sentence, the
\* cursor designates one of its sentences.
CursorWithinSentences ==
    localSentences # <<>> =>
        (0 <= activeSentenceIndex /\ activeSentenceIndex < Len(localSentences))

(***************************************************************************)
(* Binding passes across page changes.  Every page but the last of the     *)
(* document has text; a page with text has elements at the item indices    *)
(* of any other page's sentences.                                          *)
(***************************************************************************)
NumPages == 3

MaxBindTimers == 2

PageHasItems(p) == p < NumPages

InitBinding ==
    /\ ReaderInit
    /\ BindIdle
    /\ FocusIdle
    /\ SegIdle
    /\ CaptureIdle
    /\ AlignIdle
    /\ VerdictIdle

\* The page buttons: setPageNumber(p => p - 1), setPageNumber(p => p + 1).
\* The Page component loads the page asked for; the text layer shown may
\* stay in the document until the next one is rendered, or be removed.
TurnPage ==
    /\ \E p \in {pageNumber - 1, pageNumber + 1} :
        /\ p \in 1..NumPages
        /\ pageNumber' = p
    /\ pageLoading' = TRUE
    /\ \E stays \in BOOLEAN :
        /\ textLayer' = IF stays THEN textLayer ELSE 0
        /\ marked' = IF stays THEN marked ELSE {}
    /\ UNCHANGED <<bindTimers, boundTable, parentVars, readerVars, extracting,
                   callbackReading, bindPending, handlers, domItemsMap, engineVars,
                   lastEvent, segVars, captureVars, alignVars, verdictVars, focusVars>>

\* onPageLoadSuccess of the page asked for, with its getTextContent: a page
\* without items returns early, otherwise
\* setTimeout(() => mapSentencesToDom(allSentences), 1000).
PageLoadSuccess ==
    /\ pageLoading
    /\ Len(bindTimers) < MaxBindTimers
    /\ pageLoading' = FALSE
    /\ bindTimers' = IF PageHasItems(pageNumber)
                     THEN Append(bindTimers, pageNumber) ELSE bindTimers
    /\ UNCHANGED <<pageNumber, textLayer, marked, boundTable, parentVars, readerVars,
                   extracting, callbackReading, bindPending, handlers, domItemsMap,
                   engineVars, lastEvent, segVars, captureVars, alignVars, verdictVars,
                   focusVars>>

\* The Page component has rendered the text layer of the page asked for:
\* new elements, none marked.
TextLayerRenders ==
    /\ ~pageLoading
    /\ textLayer # pageNumber
    /\ textLayer' = pageNumber
    /\ marked' = {}
    /\ UNCHANGED <<pageNumber, bindTimers, boundTable, parentVars, readerVars, pageVars,
                   engineVars, lastEvent, segVars, captureVars, alignVars, verdictVars,
                   focusVars>>

\* mapSentencesToDom(sentences) on the document as it is: without a text
\* layer it returns; otherwise each sentence's elements are spans[idx] of
\* the layer found, they get the markers and the click handler, and
\* setDomItemsMap(map) replaces the table.
MapSentencesToDomBinds(page, layer, marks, table) ==
    IF layer = 0
    THEN [marked |-> marks, boundTable |-> table]
    ELSE [marked |-> IF PageHasItems(layer) THEN marks \cup {page} ELSE marks,
          boundTable |-> page]

\* The timer of the oldest pending pass fires.
SettleDelayElapses ==
    /\ bindTimers # <<>>
    /\ bindTimers' = Tail(bindTimers)
    /\ LET r == MapSentencesToDomBinds(Head(bindTimers), textLayer, marked, boundTable)
       IN  /\ marked' = r.marked
           /\ boundTable' = r.boundTable
    /\ UNCHANGED <<pageNumber, textLayer, parentVars, readerVars, pageVars, engineVars,
                   lastEvent, segVars, captureVars, alignVars, verdictVars, focusVars>>

NextBinding ==
    \/ TurnPage
    \/ PageLoadSuccess
    \/ TextLayerRenders
    \/ SettleDelayElapses

SpecBinding == InitBinding /\ [][NextBinding]_vars

\* C36 (as claimed): the markers and click handlers on the elements of the
\* text layer shown derive from the sentences of that layer's page only, and
\* once no pass is pending and the page asked for is shown with its text,
\* the table is that page's.
PassBindsItsOwnPage ==
    /\ \A p \in marked : p = textLayer
    /\ (bindTimers = <<>> /\ ~pageLoading /\ textLayer = pageNumber
           /\ PageHasItems(pageNumber) /\ boundTable # 0)
         => boundTable = pageNumber

(***************************************************************************)
(* The session statistics across restarts.                                 *)
(***************************************************************************)
\* restartSession of App.js: the cursor of the parent and the statistics are
\* reset and currentView becomes 'upload', which unmounts DocumentReader (the
\* cleanup of its Reading Logic effect cancels the engine); the reader of
\* the next document mounts in its initial state.  isProcessing, the result
\* shown and the auto-advance timer of practiceCurrentSentence are left as
\* they are.
RestartSession ==
    /\ currentSentenceIndex' = 0
    /\ sessionStats' = [completedSentences |-> 0, correctAttempts |-> 0, totalAttempts |-> 0]
    /\ localSentences' = <<>>
    /\ activeSentenceIndex' = 0
    /\ hasCleanup' = FALSE
    /\ \E keep \in BOOLEAN :
        /\ queue' = IF hasCleanup THEN EngineCancel(Engine, keep).queue ELSE queue
        /\ staleEnd' = IF hasCleanup THEN EngineCancel(Engine, keep).staleEnd ELSE staleEnd
    /\ pageLoading' = TRUE
    /\ extracting' = FALSE
    /\ callbackReading' = isReading
    /\ bindPending' = None
    /\ handlers' = None
    /\ domItemsMap' = "empty"
    /\ lastEvent' = "none"
    /\ UNCHANGED <<isReading, isProcessing, advancePending, status, practiceResult,
                   segVars, captureVars, alignVars, verdictVars, bindVars, focusVars>>

NextSession ==
    \/ HandleSentenceClick
    \/ OnPageLoadSuccess
    \/ OnTextContent
    \/ MapSentencesToDom
    \/ PracticeSubmit
    \/ PracticeResponse
    \/ PracticeAdvance
    \/ RestartSession

SpecSession == Init /\ [][NextSession]_vars

\* C37 (as claimed): in every reachable state no more attempts are counted
\* correct than were made and no more sentences completed than attempts
\* were correct.
SessionStatsConsistent ==
    /\ sessionStats.correctAttempts <= sessionStats.totalAttempts
    /\ sessionStats.completedSentences <= sessionStats.correctAttempts

\* C38 (as claimed): every sentence the segmenter emits for a page, metadata
\* or not, has text that is not empty after trimming.
EmittedTextNotEmpty ==
    segDone => \A i \in 1..Len(segSentences) : Trim(segSentences[i].text) # <<>>

(***************************************************************************)
(* FocusReadingView.  lastEvent is "tick" after an advance timer fired,    *)
(* "click" after a sentence of the list was clicked.                       *)
(***************************************************************************)
MaxFocusSentences == 8

\* The body of the effect on [isPlaying, currentSentenceIndex,
\* sentences.length]: a timer is armed while playing before the last
\* sentence; at the last sentence or beyond, setIsPlaying(false).
FocusEffectBody(playing, idx, n, timers) ==
    IF playing /\ idx < n - 1
    THEN [isPlaying |-> TRUE, timers |-> Append(timers, TRUE)]
    ELSE IF idx >= n - 1
         THEN [isPlaying |-> FALSE, timers |-> timers]
         ELSE [isPlaying |-> playing, timers |-> timers]

\* An effect whose runs leave the timers of earlier runs pending.
FocusEffectNoCleanup(playing, idx, n, timers) ==
    FocusEffectBody(playing, idx, n, [i \in 1..Len(timers) |-> FALSE])

\* A run of the effect after one of its dependencies changed: the cleanup of
\* the previous run, clearTimeout(timer), clears the timer that run armed,
\* then the body runs.
FocusEffect(playing, idx, n, timers) ==
    FocusEffectBody(playing, idx, n, SelectSeq(timers, LAMBDA latest : ~latest))

\* State updates of a handler, the re-render and the effect when isPlaying
\* or currentSentenceIndex changed.
FocusRender(playing, idx, timers) ==
    IF playing = focusPlaying /\ idx = focusIndex
    THEN /\ focusPlaying' = playing
         /\ focusIndex' = idx
         /\ focusTimers' = timers
    ELSE LET r == FocusEffect(playing, idx, focusLength, timers)
         IN  /\ focusPlaying' = r.isPlaying
             /\ focusIndex' = idx
             /\ focusTimers' = r.timers

\* FocusReadingView mounted on a list of sentences; the effect has run once.
InitFocus ==
    /\ ReaderInit
    /\ BindIdle
    /\ focusLength \in 0..MaxFocusSentences
    /\ focusIndex = 0
    /\ focusPlaying = FALSE
    /\ focusTimers = <<>>
    /\ SegIdle
    /\ CaptureIdle
    /\ AlignIdle
    /\ VerdictIdle

\* handlePlayPause.
HandlePlayPause ==
    /\ FocusRender(~focusPlaying, focusIndex, focusTimers)
    /\ lastEvent' = "none"
    /\ UNCHANGED <<focusLength, parentVars, readerVars, pageVars, engineVars, segVars,
                   captureVars, alignVars, verdictVars, bindVars>>

\* handleNext.
HandleNext ==
    /\ FocusRender(focusPlaying,
                   IF focusIndex < focusLength - 1 THEN focusIndex + 1 ELSE focusIndex,
                   focusTimers)
    /\ lastEvent' = "none"
    /\ UNCHANGED <<focusLength, parentVars, readerVars, pageVars, engineVars, segVars,
                   captureVars, alignVars, verdictVars, bindVars>>

\* handlePrevious.
HandlePrevious ==
    /\ FocusRender(focusPlaying,
                   IF focusIndex > 0 THEN focusIndex - 1 ELSE focusIndex,
                   focusTimers)
    /\ lastEvent' = "none"
    /\ UNCHANGED <<focusLength, parentVars, readerVars, pageVars, engineVars, segVars,
                   captureVars, alignVars, verdictVars, bindVars>>

\* handleSentenceClick(index) of FocusReadingView, from a sentence of the list.
FocusHandleSentenceClick ==
    /\ \E index \in 0..(focusLength - 1) : FocusRender(FALSE, index, focusTimers)
    /\ lastEvent' = "click"
    /\ UNCHANGED <<focusLength, parentVars, readerVars, pageVars, engineVars, segVars,
                   captureVars, alignVars, verdictVars, bindVars>>

\* A pending advance timer fires: setCurrentSentenceIndex(prev => prev + 1).
FocusTimerFires ==
    /\ \E i \in 1..Len(focusTimers) :
        FocusRender(focusPlaying, focusIndex + 1,
                    [j \in 1..(Len(focusTimers) - 1) |->
                        IF j < i THEN focusTimers[j] ELSE focusTimers[j + 1]])
    /\ lastEvent' = "tick"
    /\ UNCHANGED <<focusLength, parentVars, readerVars, pageVars, engineVars, segVars,
                   captureVars, alignVars, verdictVars, bindVars>>

NextFocus ==
    \/ HandlePlayPause
    \/ HandleNext
    \/ HandlePrevious
    \/ FocusHandleSentenceClick
    \/ FocusTimerFires

SpecFocus == InitFocus /\ [][NextFocus]_vars

\* C39: in focus reading, a timer pending means auto-play is on before the
\* last sentence and is the only one; a tick moves the cursor by one sentence
\* and not past the last; at the last sentence or on an empty list isPlaying
\* is false; and after a click on a sentence auto-play is off with no timer
\* pending.
AutoPlayTerminates ==
    [][/\ Len(focusTimers') <= 1
       /\ (focusTimers' # <<>>) <=> (focusPlaying' /\ focusIndex' < focusLength' - 1)
       /\ focusIndex' >= focusLength' - 1 => ~focusPlaying'
       /\ lastEvent' = "tick" =>
              /\ focusIndex' = focusIndex + 1
              /\ focusIndex' <= focusLength - 1
       /\ lastEvent' = "click" => (~focusPlaying' /\ focusTimers' = <<>>)]_vars

\* Auto-play has run from an earlier sentence to the last one of a list of
\* three or more and a tick has turned it off there.
AutoPlayReachedLastSentence ==
    /\ lastEvent = "tick"
    /\ focusLength >= 3
    /\ focusIndex = focusLength - 1
    /\ ~focusPlaying
    /\ focusTimers = <<>>
====
